---- MODULE Spec2Model ----
(***************************************************************************)
(* The stardust platform layer of std: the file-handle manager of          *)
(* sys/stardust/fs.rs over the FatFs driver, and the timed condition       *)
(* variable of sys/stardust/condvar.rs over the clock of time.rs.          *)
(*                                                                         *)
(* The specifications share the variables:                                 *)
(*   Spec       any number of threads calling the File operations on       *)
(*              shared handles in every interleaving (SpecFair: with each  *)
(*              thread going on when it can; SpecPerm: with                *)
(*              set_permissions; SpecPoison: with a panic under the guard);*)
(*   SpecSeq    one thread running a program drawn by Init, each           *)
(*              operation's result and driver calls recorded in res;       *)
(*   SpecCv     Condvar::wait_timeout under a wall clock that ticks and is *)
(*              adjusted;                                                  *)
(*   SpecDir    the operations on paths over a tree of directories;        *)
(*   SpecCanon  canonicalize;  SpecTime  the decoding of FILINFO dates;    *)
(*   SpecCalc   the seek target and the error kinds, input by input.       *)
(***************************************************************************)
EXTENDS Integers, Sequences, FiniteSets, TLC

\* ------------------------------------------------------------------ bounds
\* Capacity of the volume for one file, in bytes: the longest file and buffer.
DiskCap == 2
\* Logical File objects that can be alive at once.
NumFiles == 2
\* Successful opens in one run (FIL objects are never reused).
NumHandles == 1
\* Width of the seek arithmetic: u64/i64 of the code scaled to PosBits bits.
PosBits == 3

\* The units of time, scaled: nanoseconds in a microsecond (1000 in the code)
\* and microseconds in a second (1_000_000).
NanosPerMicro == 2
MicrosPerSec == 2
\* The ceiling of wait_timeout in seconds (1000 * 365 * 86400 in the code) and
\* time_t::MAX, scaled: as with a 64-bit time_t, the ceiling is below the maximum.
MaxDurSecs == 2
TimeTMax == 4
\* Microseconds of real time that pass while a wait lasts.
MaxTicks == 5
\* The depth of the directories of the volume, the greatest result code the
\* driver returns (one above the last code of the table of get_error), and
\* the capacity the buffer of getcwd begins with and the one it grows to at
\* most (512 in the code, unbounded).
MaxDepth == 3
\* The names, "." and ".." of a path handed to canonicalize, at most.
MaxSegs == 3
MaxCode == 20
CwdCap == 2
MaxCwdCap == 5

Bytes == {0, 1}
Paths == {"a", "b"}
Threads == {"t1", "t2"}
MainThread == "t1"
NoThread == "none"
Files == 1..NumFiles
Handles == 1..NumHandles

RECURSIVE Pow2(_)
Pow2(n) == IF n = 0 THEN 1 ELSE 2 * Pow2(n - 1)

UMax == Pow2(PosBits) - 1
IMin == -Pow2(PosBits - 1)
IMax == Pow2(PosBits - 1) - 1
UInts == 0..UMax
SInts == IMin..IMax

Min(a, b) == IF a < b THEN a ELSE b
Max(a, b) == IF a < b THEN b ELSE a

RECURSIVE SeqsUpTo(_)
SeqsUpTo(n) ==
    IF n = 0 THEN {<<>>}
    ELSE LET shorter == SeqsUpTo(n - 1)
         IN  shorter \cup {Append(s, b) : s \in {x \in shorter : Len(x) = n - 1}, b \in Bytes}
Buffers == SeqsUpTo(DiskCap)

\* ------------------------------------------------------- driver result codes
FR_OK == 0
FR_DISK_ERR == 1
FR_NO_FILE == 4
FR_DENIED == 7
FR_EXIST == 8
FR_LOCKED == 16
FR_NO_PATH == 5
FR_INVALID_NAME == 6
FR_WRITE_PROTECTED == 10
FR_NOT_ENOUGH_CORE == 17

\* ------------------------------------------------------------- OpenOptions
\* libc's mode flags, as the set of the flag names or-ed together.
FA_READ == {"FA_READ"}
FA_WRITE == {"FA_WRITE"}
FA_CREATE_NEW == {"FA_CREATE_NEW"}
FA_CREATE_ALWAYS == {"FA_CREATE_ALWAYS"}
FA_SEEKEND == {"FA_SEEKEND"}
FA_OPEN_APPEND == {"FA_OPEN_ALWAYS", "FA_SEEKEND"}

OpenOptions ==
    [read : BOOLEAN, write : BOOLEAN, append : BOOLEAN,
     truncate : BOOLEAN, create : BOOLEAN, create_new : BOOLEAN]

\* io::Result: Ok(v), or an Error of a kind with its message.
Ok(v) == [ok |-> TRUE, kind |-> "Ok", val |-> v]
Err(kind, msg) == [ok |-> FALSE, kind |-> kind, val |-> msg]

\* A get_mode that checks nothing (every combination goes to the driver).
get_mode_rejected_unchecked(opts) == FALSE

\* The combinations get_mode returns EINVAL for.
get_mode_rejected(opts) ==
    CASE opts.write /\ ~opts.append -> FALSE
      [] ~opts.write /\ ~opts.append ->
            opts.truncate \/ opts.create \/ opts.create_new
      [] OTHER -> opts.truncate /\ ~opts.create_new

creation_mode(opts) ==
    CASE ~opts.create /\ ~opts.append /\ ~opts.create_new -> {}
      [] opts.create /\ ~opts.append /\ ~opts.create_new -> FA_CREATE_ALWAYS
      [] ~opts.create /\ opts.append /\ ~opts.create_new -> FA_SEEKEND
      [] opts.create /\ opts.append /\ ~opts.create_new -> FA_CREATE_ALWAYS \cup FA_SEEKEND
      [] ~opts.append /\ opts.create_new -> FA_CREATE_NEW
      [] OTHER -> FA_OPEN_APPEND

\* An access mode that asks for write access whenever any creation is asked.
access_mode_from_creation(opts) ==
    (IF opts.read THEN FA_READ ELSE {})
        \cup (IF opts.write \/ opts.create \/ opts.create_new THEN FA_WRITE ELSE {})

access_mode(opts) ==
    CASE ~opts.read /\ ~opts.write -> {}
      [] opts.read /\ ~opts.write -> FA_READ
      [] ~opts.read /\ opts.write -> FA_WRITE
      [] OTHER -> FA_READ \cup FA_WRITE

get_mode(opts) ==
    IF get_mode_rejected(opts) THEN Err("RawOs", "EINVAL")
    ELSE Ok(creation_mode(opts) \cup access_mode(opts))

\* get_error: zero is success, every other code an error of the kind and with
\* the message of the table.
get_error(result) ==
    CASE result = 0 -> Ok(0)
      [] result = 1 -> Err("Other", "A hard error occurred in the low level disk I/O layer")
      [] result = 2 -> Err("Other", "Assertion failed")
      [] result = 3 -> Err("Other", "The physical drive cannot work")
      [] result = 4 -> Err("NotFound", "Could not find the file")
      [] result = 5 -> Err("NotFound", "Could not find the path")
      [] result = 6 -> Err("InvalidInput", "The path name format is invalid")
      [] result = 7 -> Err("PermissionDenied",
                           "Access denied due to prohibited access or directory full")
      [] result = 8 -> Err("PermissionDenied", "Access denied due to prohibited access")
      [] result = 9 -> Err("InvalidInput", "The file/directory object is invalid")
      [] result = 10 -> Err("Other", "The physical drive is write protected")
      [] result = 11 -> Err("Other", "The logical drive number is invalid")
      [] result = 12 -> Err("Other", "The volume has no work area")
      [] result = 13 -> Err("Other", "There is no valid FAT volume")
      [] result = 14 -> Err("Interrupted", "The f_mkfs() aborted due to any problem")
      [] result = 15 -> Err("TimedOut",
                            "Could not get a grant to access the volume within defined period")
      [] result = 16 -> Err("PermissionDenied",
                            "The operation is rejected according to the file sharing policy")
      [] result = 17 -> Err("Other", "LFN working buffer could not be allocated")
      [] result = 18 -> Err("Other", "Number of open files > FF_FS_LOCK")
      [] result = 19 -> Err("InvalidInput", "Given parameter is invalid")
      [] OTHER -> Err("Other", "Unknown error")

\* ------------------------------------------------------------------- state
VARIABLES
    threads,    \* the threads that run
    prog,       \* SpecSeq: the requests MainThread makes, one after the other
    res,        \* SpecSeq: the result of each request made, with its driver calls
    calls,      \* SpecSeq: the driver calls of the request in progress
    disk,       \* the volume: path -> [exists, data, rdo]
    fil,        \* the FIL objects: handle -> [path, fptr, flag, excl, closes, stale]
    strong,     \* Arc<RwLock<FileInner>>: handle -> strong count
    lock,       \* RwLock<FileInner>: handle -> [writer, readers]
    files,      \* the live File objects: file -> [h, path]
    th,         \* thread -> where it is in the operation it runs
    cv,         \* SpecCv: the state of one wait_timeout call and of the clocks
    tree,       \* SpecDir: the directories of the volume: node -> "none", "file", "dir"
    dirs,       \* SpecDir: the ReadDir objects alive, the innermost last
    cwd,        \* SpecDir: the current directory of the driver
    cn,         \* SpecCanon: a path and what canonicalize made of it
    stamp,      \* SpecTime: packed dates and times and what they decode to
    calc        \* SpecCalc: the arguments of a computation and what it gives

fsvars == <<threads, prog, res, calls, disk, fil, strong, lock, files, th>>
dirvars == <<tree, dirs, cwd>>
purevars == <<cn, stamp, calc>>
vars == <<threads, prog, res, calls, disk, fil, strong, lock, files, th, cv,
          tree, dirs, cwd, cn, stamp, calc>>

scripted == threads = {MainThread}
Idle == [pc |-> "idle"]
NoFile == [exists |-> FALSE, data |-> <<>>, rdo |-> FALSE]
Unlocked == [writer |-> NoThread, readers |-> {}, poisoned |-> FALSE]

\* ------------------------------------------------------------------ driver
\* The FatFs calls the layer makes, by the documented contract of each: the
\* result code first, then what the call leaves behind.  Every call may fail
\* with a hard error and then changes nothing.

\* f_open: the set of its outcomes.  With the file lock of the driver a file
\* that is open cannot be opened again unless both opens only read; a file
\* with the read-only attribute is neither created over nor opened to write.
f_open(path, mode) ==
    LET file == disk[path]
        held == {h \in DOMAIN fil : fil[h].path = path /\ fil[h].closes = 0}
        locked == held # {}
                  /\ (mode \ FA_READ # {} \/ \E h \in held : fil[h].excl)
        creating == mode \cap {"FA_CREATE_NEW", "FA_CREATE_ALWAYS", "FA_OPEN_ALWAYS"} # {}
        data == IF file.exists /\ "FA_CREATE_ALWAYS" \notin mode THEN file.data ELSE <<>>
        code == CASE locked -> FR_LOCKED
                  [] ~file.exists /\ ~creating -> FR_NO_FILE
                  [] file.exists /\ file.rdo /\ (creating \/ "FA_WRITE" \in mode) -> FR_DENIED
                  [] file.exists /\ "FA_CREATE_NEW" \in mode -> FR_EXIST
                  [] OTHER -> FR_OK
    IN  {[code |-> FR_DISK_ERR, file |-> file, fptr |-> 0]}
        \cup {[code |-> code,
               file |-> IF code = FR_OK
                        THEN [exists |-> TRUE, data |-> data, rdo |-> file.exists /\ file.rdo]
                        ELSE file,
               fptr |-> IF code = FR_OK /\ "FA_SEEKEND" \in mode THEN Len(data) ELSE 0]}

\* f_read: up to btr bytes from the read/write pointer, which moves past them.
f_read(fp, file, btr) ==
    LET n == Max(0, Min(btr, Len(file.data) - fp.fptr))
        code == IF "FA_READ" \in fp.flag THEN FR_OK ELSE FR_DENIED
    IN  {[code |-> FR_DISK_ERR, data |-> <<>>, fptr |-> fp.fptr]}
        \cup {IF code = FR_OK
              THEN [code |-> FR_OK, data |-> SubSeq(file.data, fp.fptr + 1, fp.fptr + n),
                    fptr |-> fp.fptr + n]
              ELSE [code |-> code, data |-> <<>>, fptr |-> fp.fptr]}

\* f_write: the bytes of buf that fit on the volume, at the read/write pointer.
f_write(fp, file, buf) ==
    LET bw == Min(Len(buf), DiskCap - fp.fptr)
        upto == Max(Len(file.data), fp.fptr + bw)
        data == [i \in 1..upto |->
                    IF i > fp.fptr /\ i <= fp.fptr + bw THEN buf[i - fp.fptr]
                    ELSE file.data[i]]
        code == IF "FA_WRITE" \in fp.flag THEN FR_OK ELSE FR_DENIED
    IN  {[code |-> FR_DISK_ERR, bw |-> 0, data |-> file.data, fptr |-> fp.fptr]}
        \cup {IF code = FR_OK
              THEN [code |-> FR_OK, bw |-> bw, data |-> data, fptr |-> fp.fptr + bw]
              ELSE [code |-> code, bw |-> 0, data |-> file.data, fptr |-> fp.fptr]}

\* f_lseek: the pointer moves to ofs; past the end the file grows in write mode
\* (as far as the volume has room) and the pointer stops at the end otherwise.
f_lseek(fp, file, ofs) ==
    LET size == Len(file.data)
        to == IF "FA_WRITE" \in fp.flag THEN Min(ofs, DiskCap) ELSE Min(ofs, size)
        data == [i \in 1..Max(size, to) |-> IF i <= size THEN file.data[i] ELSE 0]
    IN  {[code |-> FR_DISK_ERR, data |-> file.data, fptr |-> fp.fptr],
         [code |-> FR_OK, data |-> data, fptr |-> to]}

\* f_truncate: the file ends at the read/write pointer.
f_truncate(fp, file) ==
    LET code == IF "FA_WRITE" \in fp.flag THEN FR_OK ELSE FR_DENIED
    IN  {[code |-> FR_DISK_ERR, data |-> file.data]}
        \cup {[code |-> code,
               data |-> IF code = FR_OK THEN SubSeq(file.data, 1, fp.fptr) ELSE file.data]}

f_sync(fp) == {FR_DISK_ERR, FR_OK}

\* f_chmod(path, attr, AM_RDO): the read-only attribute of the file at path
\* becomes attr.
f_chmod(path, attr) ==
    {[code |-> FR_DISK_ERR, file |-> disk[path]]}
        \cup {IF disk[path].exists
              THEN [code |-> FR_OK, file |-> [disk[path] EXCEPT !.rdo = attr]]
              ELSE [code |-> FR_NO_FILE, file |-> disk[path]]}

\* f_stat: the size of the file at path.
f_stat(path) ==
    {[code |-> FR_DISK_ERR, fsize |-> 0]}
        \cup {IF disk[path].exists THEN [code |-> FR_OK, fsize |-> Len(disk[path].data)]
              ELSE [code |-> FR_NO_FILE, fsize |-> 0]}

\* A call on a FIL object: the driver sees the object it was handed, and a call
\* on one that f_close has released is recorded in stale.
DriverTouch(h) == [fil[h] EXCEPT !.stale = @ \/ fil[h].closes > 0]

\* ------------------------------------------------------------------ RwLock
\* RwLock::write and RwLock::read: whether the guard can be had now, and the
\* lock with the guard held.
RwLock_write(h, t) ==
    [can |-> lock[h].writer = NoThread /\ lock[h].readers = {},
     lock |-> [lock EXCEPT ![h].writer = t]]
RwLock_read(h, t) ==
    [can |-> lock[h].writer = NoThread,
     lock |-> [lock EXCEPT ![h].readers = @ \cup {t}]]
\* A guard that is never dropped.
guard_kept(h, t) == lock
\* Dropping the guard thread t holds.
guard_drop(h, t) ==
    [lock EXCEPT ![h].writer = IF @ = t THEN NoThread ELSE @,
                 ![h].readers = @ \ {t}]
\* A lock that is never found poisoned.
never_poisoned(h) == FALSE
\* RwLock::write and RwLock::read return Err once a holder of the write guard
\* has panicked; the guard inside the error is dropped at once.
is_poisoned(h) == lock[h].poisoned
LockPoisoned == Err("Other", "Lock poisoned")

\* The guard each operation takes for its driver call.
fsync_guard(h, t) == RwLock_write(h, t)
truncate_guard(h, t) == RwLock_write(h, t)
read_guard(h, t) == RwLock_write(h, t)
\* A write that takes the shared guard for its driver call.
write_guard_shared(h, t) == RwLock_read(h, t)
write_guard(h, t) == RwLock_write(h, t)
seek_guard(h, t) == RwLock_write(h, t)

\* ---------------------------------------------------------------- requests
Whences == {"Start", "End", "Current"}
Requests ==
    [op : {"open"}, path : Paths, opts : OpenOptions]
    \cup [op : {"read"}, f : Files, len : 0..DiskCap]
    \cup [op : {"write"}, f : Files, buf : Buffers]
    \cup [op : {"seek"}, f : Files, whence : {"Start"}, p : UInts]
    \cup [op : {"seek"}, f : Files, whence : {"End", "Current"}, p : SInts]
    \cup [op : {"truncate"}, f : Files, size : 0..DiskCap]
    \cup [op : {"fsync", "duplicate", "drop"}, f : Files]
    \cup [op : {"set_permissions"}, f : Files, read_only : BOOLEAN]

\* The requests of Spec: the bytes written are all 0 there (the interleavings
\* depend on the lengths alone); SpecSeq writes every buffer.
FreeRequests == {r \in Requests : r.op = "write" => \A i \in 1..Len(r.buf) : r.buf[i] = 0}

\* The requests thread t can make now: any, or the next of the program.
Req(t, op) ==
    IF scripted
    THEN IF t = MainThread /\ Len(res) < Len(prog) /\ prog[Len(res) + 1].op = op
         THEN {prog[Len(res) + 1]}
         ELSE {}
    ELSE {r \in FreeRequests : r.op = op}

\* A driver call as the log keeps it: the function and what it was handed (the
\* mode of f_open, the path of f_stat, the FIL of the others).
Call(fn, arg) == <<[fn |-> fn, arg |-> arg]>>

\* The operation of thread t returns r, having made the driver calls made.
Finish(t, r, made) ==
    /\ th' = [th EXCEPT ![t] = Idle]
    /\ IF scripted
       THEN /\ res' = Append(res, [ok |-> r.ok, kind |-> r.kind, val |-> r.val,
                                    calls |-> calls \o made])
            /\ calls' = <<>>
       ELSE UNCHANGED <<res, calls>>
    /\ UNCHANGED prog

\* The operation of thread t goes on at st, having made the driver calls made.
Continue(t, st, made) ==
    /\ th' = [th EXCEPT ![t] = st]
    /\ calls' = IF scripted THEN calls \o made ELSE calls
    /\ UNCHANGED <<prog, res>>

HandleOf(f) == files[f].h
FileOf(h) == disk[fil[h].path]
FreeFile == CHOOSE f \in Files \ DOMAIN files : \A g \in Files \ DOMAIN files : f <= g
InUse(f) == \E t \in threads : th[t] # Idle /\ th[t].f = f

\* -------------------------------------------------------------------- open
\* File::open / File::copen: get_mode is evaluated before f_open is called.
Open(t) ==
    /\ t \in threads /\ th[t] = Idle
    /\ Cardinality(DOMAIN fil) < NumHandles /\ DOMAIN files # Files
    /\ UNCHANGED <<threads, cv, dirvars, purevars>>
    /\ \E req \in Req(t, "open") :
         LET m == get_mode(req.opts)
             h == Cardinality(DOMAIN fil) + 1
             f == FreeFile
         IN  IF ~m.ok
             THEN /\ Finish(t, m, <<>>)
                  /\ UNCHANGED <<disk, fil, strong, lock, files>>
             ELSE \E o \in f_open(req.path, m.val) :
                    IF o.code # FR_OK
                    THEN /\ Finish(t, get_error(o.code), Call("f_open", m.val))
                         /\ UNCHANGED <<disk, fil, strong, lock, files>>
                    ELSE /\ disk' = [disk EXCEPT ![req.path] = o.file]
                         /\ fil' = fil @@ (h :> [path |-> req.path, fptr |-> o.fptr,
                                                 flag |-> m.val \cap (FA_READ \cup FA_WRITE),
                                                 excl |-> m.val \ FA_READ # {},
                                                 closes |-> 0, stale |-> FALSE])
                         /\ strong' = strong @@ (h :> 1)
                         /\ lock' = lock @@ (h :> Unlocked)
                         /\ files' = files @@ (f :> [h |-> h, path |-> req.path])
                         /\ Finish(t, Ok(f), Call("f_open", m.val))

\* ------------------------------------------------------ read, write, sync
\* A driver call on handle h by thread t has returned: the FIL object as the
\* call left it, and the guard dropped.
Returned(h, t, fptr) ==
    /\ fil' = [fil EXCEPT ![h] = [DriverTouch(h) EXCEPT !.fptr = fptr]]
    /\ lock' = guard_drop(h, t)

ReadCall(t) ==
    /\ t \in threads /\ th[t] = Idle
    /\ UNCHANGED <<threads, cv, dirvars, purevars, disk, fil, strong, files>>
    /\ \E req \in Req(t, "read") :
         /\ req.f \in DOMAIN files
         /\ LET g == read_guard(HandleOf(req.f), t)
            IN  /\ g.can
                /\ IF is_poisoned(HandleOf(req.f))
                   THEN Finish(t, LockPoisoned, <<>>) /\ UNCHANGED lock
                   ELSE /\ lock' = g.lock
                        /\ Continue(t, [pc |-> "f_read", f |-> req.f],
                                    Call("f_read", HandleOf(req.f)))

ReadReturn(t) ==
    /\ t \in threads /\ th[t] # Idle /\ th[t].pc = "f_read"
    /\ UNCHANGED <<threads, cv, dirvars, purevars, disk, strong, files>>
    /\ \E req \in Req(t, "read") :
         /\ req.f = th[t].f
         /\ LET h == HandleOf(req.f)
            IN  \E o \in f_read(fil[h], FileOf(h), req.len) :
                  /\ Returned(h, t, o.fptr)
                  /\ Finish(t, IF o.code = FR_OK THEN Ok(o.data) ELSE get_error(o.code),
                            <<>>)

WriteCall(t) ==
    /\ t \in threads /\ th[t] = Idle
    /\ UNCHANGED <<threads, cv, dirvars, purevars, disk, fil, strong, files>>
    /\ \E req \in Req(t, "write") :
         /\ req.f \in DOMAIN files
         /\ LET g == write_guard(HandleOf(req.f), t)
            IN  /\ g.can
                /\ IF is_poisoned(HandleOf(req.f))
                   THEN Finish(t, LockPoisoned, <<>>) /\ UNCHANGED lock
                   ELSE /\ lock' = g.lock
                        /\ Continue(t, [pc |-> "f_write", f |-> req.f],
                                    Call("f_write", HandleOf(req.f)))

WriteReturn(t) ==
    /\ t \in threads /\ th[t] # Idle /\ th[t].pc = "f_write"
    /\ UNCHANGED <<threads, cv, dirvars, purevars, strong, files>>
    /\ \E req \in Req(t, "write") :
         /\ req.f = th[t].f
         /\ LET h == HandleOf(req.f)
            IN  \E o \in f_write(fil[h], FileOf(h), req.buf) :
                  /\ disk' = [disk EXCEPT ![fil[h].path].data = o.data]
                  /\ Returned(h, t, o.fptr)
                  /\ Finish(t, IF o.code = FR_OK THEN Ok(o.bw) ELSE get_error(o.code),
                            <<>>)

\* File::fsync, which datasync and flush call.
FsyncCall(t) ==
    /\ t \in threads /\ th[t] = Idle
    /\ UNCHANGED <<threads, cv, dirvars, purevars, disk, fil, strong, files>>
    /\ \E req \in Req(t, "fsync") :
         /\ req.f \in DOMAIN files
         /\ LET g == fsync_guard(HandleOf(req.f), t)
            IN  /\ g.can
                /\ IF is_poisoned(HandleOf(req.f))
                   THEN Finish(t, LockPoisoned, <<>>) /\ UNCHANGED lock
                   ELSE /\ lock' = g.lock
                        /\ Continue(t, [pc |-> "f_sync", f |-> req.f],
                                    Call("f_sync", HandleOf(req.f)))

FsyncReturn(t) ==
    /\ t \in threads /\ th[t] # Idle /\ th[t].pc = "f_sync"
    /\ UNCHANGED <<threads, cv, dirvars, purevars, disk, strong, files>>
    /\ LET h == HandleOf(th[t].f)
       IN  \E code \in f_sync(fil[h]) :
             /\ Returned(h, t, fil[h].fptr)
             /\ Finish(t, get_error(code), <<>>)

\* File::truncate(_size): the size asked for is not handed to the driver.
TruncateCall(t) ==
    /\ t \in threads /\ th[t] = Idle
    /\ UNCHANGED <<threads, cv, dirvars, purevars, disk, fil, strong, files>>
    /\ \E req \in Req(t, "truncate") :
         /\ req.f \in DOMAIN files
         /\ LET g == truncate_guard(HandleOf(req.f), t)
            IN  /\ g.can
                /\ IF is_poisoned(HandleOf(req.f))
                   THEN Finish(t, LockPoisoned, <<>>) /\ UNCHANGED lock
                   ELSE /\ lock' = g.lock
                        /\ Continue(t, [pc |-> "f_truncate", f |-> req.f],
                                    Call("f_truncate", HandleOf(req.f)))

TruncateReturn(t) ==
    /\ t \in threads /\ th[t] # Idle /\ th[t].pc = "f_truncate"
    /\ UNCHANGED <<threads, cv, dirvars, purevars, strong, files>>
    /\ LET h == HandleOf(th[t].f)
       IN  \E o \in f_truncate(fil[h], FileOf(h)) :
             /\ disk' = [disk EXCEPT ![fil[h].path].data = o.data]
             /\ Returned(h, t, fil[h].fptr)
             /\ Finish(t, get_error(o.code), <<>>)

\* File::set_permissions: f_chmod of the path of the File; no guard is taken.
SetPermissions(t) ==
    /\ t \in threads /\ th[t] = Idle
    /\ UNCHANGED <<threads, cv, dirvars, purevars, fil, strong, lock, files>>
    /\ \E req \in Req(t, "set_permissions") :
         /\ req.f \in DOMAIN files
         /\ \E o \in f_chmod(files[req.f].path, req.read_only) :
              /\ disk' = [disk EXCEPT ![files[req.f].path] = o.file]
              /\ Finish(t, get_error(o.code), Call("f_chmod", files[req.f].path))

\* -------------------------------------------------------------------- seek
\* u64 and i64 arithmetic, at PosBits bits.
wrap_u(x) == x % Pow2(PosBits)
wrap_i(x) == IF wrap_u(x) > IMax THEN wrap_u(x) - Pow2(PosBits) ELSE wrap_u(x)
\* i64::abs (the most negative value is its own abs) and `as u64`.
abs_i(p) == IF p < 0 THEN wrap_i(-p) ELSE p
as_u(p) == wrap_u(p)
checked_sub(a, b) ==
    IF a >= b THEN Ok(a - b) ELSE Err("Other", "Cannot seek beyond start of file")

\* A target that is taken modulo the width instead of checked.
seek_target_wrapping(base, p) == Ok(wrap_u(base + p))

\* The position of SeekFrom::End(p) and SeekFrom::Current(p) from base, the
\* size or the current position.
seek_target(base, p) ==
    IF p > 0 THEN Ok(wrap_u(base + as_u(p))) ELSE checked_sub(base, as_u(abs_i(p)))

\* A Start that counts the bytes from 1.
seek_start_one_based(p) == wrap_u(p + 1)
\* SeekFrom::Start(p): the position is p.
seek_start(p) == p

\* A read guard that lives on after the statement that took it.
temporary_guard_kept(h, t) == RwLock_read(h, t).lock
\* The read guard of `self.file.read()...?.0.fptr` is a temporary: it is dropped
\* at the end of the statement, and the lock is as it was.
temporary_guard(h, t) == lock

\* A seek that has its target and has yet to reposition: the origin of pos,
\* what the target was computed from (size or current; nothing for Start) and
\* the target (position).
SeekPos(req, base, position) ==
    [pc |-> "seek_pos", f |-> req.f, whence |-> req.whence,
     base |-> base, position |-> position]

SeekStart(t) ==
    /\ t \in threads /\ th[t] = Idle
    /\ UNCHANGED <<threads, cv, dirvars, purevars, disk, fil, strong, lock, files>>
    /\ \E req \in Req(t, "seek") :
         /\ req.f \in DOMAIN files /\ req.whence = "Start"
         /\ Continue(t, SeekPos(req, 0, seek_start(req.p)), <<>>)

\* SeekFrom::End(p): the size comes from file_attr, an f_stat of the path.
SeekEnd(t) ==
    /\ t \in threads /\ th[t] = Idle
    /\ UNCHANGED <<threads, cv, dirvars, purevars, disk, fil, strong, lock, files>>
    /\ \E req \in Req(t, "seek") :
         /\ req.f \in DOMAIN files /\ req.whence = "End"
         /\ \E s \in f_stat(files[req.f].path) :
              LET target == seek_target(s.fsize, req.p)
                  stat == Call("f_stat", files[req.f].path)
              IN  IF s.code # FR_OK THEN Finish(t, get_error(s.code), stat)
                  ELSE IF ~target.ok THEN Finish(t, target, stat)
                  ELSE Continue(t, SeekPos(req, s.fsize, target.val), stat)

\* SeekFrom::Current(p): the position is read from the FIL under a read guard
\* that is dropped at once.
SeekCurrent(t) ==
    /\ t \in threads /\ th[t] = Idle
    /\ UNCHANGED <<threads, cv, dirvars, purevars, disk, fil, strong, files>>
    /\ \E req \in Req(t, "seek") :
         /\ req.f \in DOMAIN files /\ req.whence = "Current"
         /\ RwLock_read(HandleOf(req.f), t).can
         /\ lock' = temporary_guard(HandleOf(req.f), t)
         /\ LET current == fil[HandleOf(req.f)].fptr
                target == seek_target(current, req.p)
            IN  IF is_poisoned(HandleOf(req.f)) THEN Finish(t, LockPoisoned, <<>>)
                ELSE IF ~target.ok THEN Finish(t, target, <<>>)
                ELSE Continue(t, SeekPos(req, current, target.val), <<>>)

\* The write guard of the repositioning, and f_lseek called under it.
SeekCall(t) ==
    /\ t \in threads /\ th[t] # Idle /\ th[t].pc = "seek_pos"
    /\ UNCHANGED <<threads, cv, dirvars, purevars, disk, fil, strong, files>>
    /\ LET g == seek_guard(HandleOf(th[t].f), t)
       IN  /\ g.can
           /\ IF is_poisoned(HandleOf(th[t].f))
              THEN Finish(t, LockPoisoned, <<>>) /\ UNCHANGED lock
              ELSE /\ lock' = g.lock
                   /\ Continue(t, [th[t] EXCEPT !.pc = "f_lseek"],
                               Call("f_lseek", HandleOf(th[t].f)))

SeekLseekReturn(t) ==
    /\ t \in threads /\ th[t] # Idle /\ th[t].pc = "f_lseek"
    /\ UNCHANGED <<threads, cv, dirvars, purevars, strong, files>>
    /\ LET h == HandleOf(th[t].f)
       IN  \E o \in f_lseek(fil[h], FileOf(h), th[t].position) :
             /\ disk' = [disk EXCEPT ![fil[h].path].data = o.data]
             /\ Returned(h, t, o.fptr)
             /\ IF o.code # FR_OK THEN Finish(t, get_error(o.code), <<>>)
                ELSE Continue(t, [pc |-> "seek_ret", f |-> th[t].f,
                                  established |-> o.fptr], <<>>)

\* The position returned is read from the FIL under a second read guard
\* (established is the position f_lseek left, kept to compare with it).
SeekReturn(t) ==
    /\ t \in threads /\ th[t] # Idle /\ th[t].pc = "seek_ret"
    /\ UNCHANGED <<threads, cv, dirvars, purevars, disk, fil, strong, lock, files>>
    /\ RwLock_read(HandleOf(th[t].f), t).can
    /\ Finish(t, IF is_poisoned(HandleOf(th[t].f)) THEN LockPoisoned
                 ELSE Ok(fil[HandleOf(th[t].f)].fptr), <<>>)

\* ------------------------------------------------------- duplicate and drop
\* Arc::clone with a count that is not taken.
Arc_clone_uncounted(h) == strong
Arc_clone(h) == [strong EXCEPT ![h] = @ + 1]
Arc_drop(h) == [strong EXCEPT ![h] = @ - 1]

\* A duplicate that carries an empty path.
duplicate_without_path(f) == [h |-> files[f].h, path |-> ""]
\* File::duplicate: the File it returns.
duplicate(f) == [h |-> files[f].h, path |-> files[f].path]

Duplicate(t) ==
    /\ t \in threads /\ th[t] = Idle
    /\ DOMAIN files # Files
    /\ UNCHANGED <<threads, cv, dirvars, purevars, disk, fil, lock>>
    /\ \E req \in Req(t, "duplicate") :
         /\ req.f \in DOMAIN files
         /\ strong' = Arc_clone(HandleOf(req.f))
         /\ files' = files @@ (FreeFile :> duplicate(req.f))
         /\ Finish(t, Ok(FreeFile), <<>>)

\* impl Drop for FileInner: f_close, its result ignored.
FileInner_drop(h) ==
    [fil EXCEPT ![h] = [DriverTouch(h) EXCEPT !.closes = Min(2, @ + 1)]]

\* A File goes out of scope: the Arc is dropped, and FileInner with the last one.
\* No thread is inside an operation on a File that is dropped.
DropFile(t) ==
    /\ t \in threads /\ th[t] = Idle
    /\ UNCHANGED <<threads, cv, dirvars, purevars, disk, lock>>
    /\ \E req \in Req(t, "drop") :
         /\ req.f \in DOMAIN files /\ ~InUse(req.f)
         /\ LET h == HandleOf(req.f)
                last == Arc_drop(h)[h] = 0
            IN  /\ strong' = Arc_drop(h)
                /\ files' = [g \in DOMAIN files \ {req.f} |-> files[g]]
                /\ fil' = IF last THEN FileInner_drop(h) ELSE fil
                /\ Finish(t, Ok(0), IF last THEN Call("f_close", h) ELSE <<>>)

\* ------------------------------------------------------------ specification
Volumes == {[p \in Paths |-> NoFile]}
           \cup {[p \in Paths |-> IF p = "a" THEN [exists |-> TRUE, data |-> b, rdo |-> FALSE]
                                 ELSE NoFile] :
                    b \in {<<0>>}}

\* The variables of the other specifications, which stay as they are.
DirOff == tree = <<>> /\ dirs = <<>> /\ cwd = <<>>
PureOff == cn = <<>> /\ stamp = <<>> /\ calc = <<>>

InitFs ==
    /\ DirOff /\ PureOff
    /\ calls = <<>> /\ res = <<>>
    /\ disk \in Volumes
    /\ fil = <<>> /\ strong = <<>> /\ lock = <<>> /\ files = <<>>
    /\ th = [t \in Threads |-> Idle]
    /\ cv = [pc |-> "off"]

Init == InitFs /\ threads = Threads /\ prog = <<>>

Next ==
    \E t \in Threads :
        \/ Open(t)
        \/ ReadCall(t) \/ ReadReturn(t)
        \/ WriteCall(t) \/ WriteReturn(t)
        \/ FsyncCall(t) \/ FsyncReturn(t)
        \/ TruncateCall(t) \/ TruncateReturn(t)
        \/ SeekStart(t) \/ SeekEnd(t) \/ SeekCurrent(t)
        \/ SeekCall(t) \/ SeekLseekReturn(t) \/ SeekReturn(t)
        \/ Duplicate(t) \/ DropFile(t)

Spec == Init /\ [][Next]_vars

\* SpecPerm: the threads of Spec, which also set the permissions of the files.
NextPerm == Next \/ \E t \in Threads : SetPermissions(t)
SpecPerm == Init /\ [][NextPerm]_vars

\* ----------------------------------------------------- SpecSeq: one thread
Opts(r, w, a, t, c, n) ==
    [read |-> r, write |-> w, append |-> a, truncate |-> t, create |-> c, create_new |-> n]
OpenReq(path, opts) == [op |-> "open", path |-> path, opts |-> opts]
WriteReq(f, buf) == [op |-> "write", f |-> f, buf |-> buf]
ReadReq(f, len) == [op |-> "read", f |-> f, len |-> len]
SeekReq(f, whence, p) == [op |-> "seek", f |-> f, whence |-> whence, p |-> p]
FileReq(op, f) == [op |-> op, f |-> f]

\* The opens of the programs that go on after the open.
SeqOpens ==
    {Opts(TRUE, TRUE, FALSE, FALSE, FALSE, TRUE),
     Opts(TRUE, TRUE, FALSE, FALSE, TRUE, FALSE),
     Opts(TRUE, TRUE, TRUE, FALSE, FALSE, FALSE)}
SeqSeeks == {r \in Requests : r.op = "seek" /\ r.f = 1}
SeqLast ==
    {ReadReq(1, n) : n \in 0..DiskCap}
    \cup {[op |-> "truncate", f |-> 1, size |-> 0], FileReq("fsync", 1)}

\* Every open alone; an open, a write, a seek and one more operation; and a
\* file written and duplicated, one of the two dropped, the other written, read
\* and dropped.
Programs ==
    {<<OpenReq(p, o)>> : p \in Paths, o \in OpenOptions}
    \cup {<<OpenReq("a", o), WriteReq(1, b), sk, z>> :
            o \in SeqOpens, b \in Buffers, sk \in SeqSeeks, z \in SeqLast}
    \cup {<<OpenReq(p, o), WriteReq(1, a), FileReq("duplicate", 1), FileReq("drop", d),
            WriteReq(3 - d, b), SeekReq(3 - d, "Start", 0), ReadReq(3 - d, Len(b)),
            FileReq("drop", 3 - d)>> :
            p \in Paths, o \in SeqOpens, a \in {<<>>, <<1>>}, d \in {1, 2}, b \in Buffers}

InitSeq == InitFs /\ threads = {MainThread} /\ prog \in Programs

SpecSeq == InitSeq /\ [][Next]_vars

\* ================================================================== claims
Last(q) == q[Len(q)]
DriverPcs == {"f_read", "f_write", "f_lseek", "f_truncate", "f_sync"}
\* Thread t is inside a driver call that was handed the FIL of handle h.
InDriver(t, h) == th[t] # Idle /\ th[t].pc \in DriverPcs /\ HandleOf(th[t].f) = h
Owners(h) == {f \in DOMAIN files : files[f].h = h}

\* C1: for each handle, at most one thread is inside a driver call that takes
\* it (f_read, f_write, f_lseek, f_truncate, f_sync), whatever logical files
\* of the handle the threads go through.
C1_OneDriverCallPerHandle ==
    \A h \in DOMAIN fil : Cardinality({t \in Threads : InDriver(t, h)}) <= 1

\* Two threads are inside operations on one handle through two logical files:
\* one in its driver call, the other before the guard of its own.
C1_Witness ==
    \E t, u \in Threads :
        /\ t # u /\ th[t] # Idle /\ th[u] # Idle
        /\ th[t].f # th[u].f
        /\ InDriver(t, HandleOf(th[u].f))
        /\ th[t].pc = "f_write" /\ th[u].pc = "seek_pos"

\* C2: f_close is called on a handle exactly once, when no logical file owns
\* it any more and not before, and no driver call is handed the handle after.
C2_CloseOnceAfterLastDrop ==
    \A h \in DOMAIN fil :
        /\ fil[h].closes <= 1
        /\ ~fil[h].stale
        /\ fil[h].closes = 1 <=> Owners(h) = {}

\* The duplicate outlives the original: file 2 alone owns the handle, which is
\* open, and a thread is in f_write on it.
C2_Witness ==
    \E h \in DOMAIN fil, t \in Threads :
        /\ Owners(h) = {2} /\ fil[h].closes = 0
        /\ InDriver(t, h) /\ th[t].pc = "f_write"

\* The illegal combinations of the legality table.
IllegalRequest(o) ==
    \/ ~o.write /\ ~o.append /\ (o.truncate \/ o.create \/ o.create_new)
    \/ o.append /\ o.truncate /\ ~o.create_new

Opens == {i \in 1..Len(res) : prog[i].op = "open"}

\* C3: an open of an illegal combination returns an error and makes no driver
\* call.
C3_IllegalOpenNoDriverCall ==
    \A i \in Opens :
        IllegalRequest(prog[i].opts) => ~res[i].ok /\ res[i].calls = <<>>

C3_Witness ==
    \E i \in Opens :
        /\ IllegalRequest(prog[i].opts) /\ prog[i].opts.append /\ prog[i].opts.write
        /\ ~res[i].ok

\* C4: of the 64 combinations, open rejects exactly the illegal ones; each
\* other reaches f_open, with FA_READ in the mode iff read is set and FA_WRITE
\* iff write is set.
C4_LegalityAndAccessMode ==
    \A i \in Opens :
        LET o == prog[i].opts
        IN  IF IllegalRequest(o) THEN res[i].calls = <<>>
            ELSE /\ Len(res[i].calls) = 1
                 /\ res[i].calls[1].fn = "f_open"
                 /\ ("FA_READ" \in res[i].calls[1].arg) <=> o.read
                 /\ ("FA_WRITE" \in res[i].calls[1].arg) <=> o.write

\* An append-only open that creates: it reaches the driver without FA_WRITE.
C4_Witness ==
    \E i \in Opens :
        /\ prog[i].opts.append /\ prog[i].opts.create /\ ~prog[i].opts.write
        /\ prog[i].opts.read /\ res[i].ok

\* The request MainThread makes next, when it is about to make one.
AtRequest == th[MainThread] = Idle /\ Len(res) < Len(prog)
NextReq == prog[Len(res) + 1]
\* What an End or Current seek starts from: the size, or the position.
SeekBase(req) ==
    IF req.whence = "End" THEN Len(disk[files[req.f].path].data)
    ELSE fil[HandleOf(req.f)].fptr
BeforeStart(req) ==
    /\ req.op = "seek" /\ req.whence \in {"End", "Current"}
    /\ req.f \in DOMAIN files
    /\ req.p < 0 /\ -req.p > SeekBase(req)

\* C5: a seek to End(p) or Current(p) with p negative and of a magnitude above
\* the size (the position) returns an error in the step that finds it: no
\* f_lseek is called and the FIL and its position stay as they were.
C5_SeekBeforeStartFails ==
    [][(AtRequest /\ BeforeStart(NextReq)) =>
          /\ Len(res') = Len(res) + 1
          /\ ~Last(res').ok
          /\ \A k \in 1..Len(Last(res').calls) : Last(res').calls[k].fn # "f_lseek"
          /\ fil' = fil /\ disk' = disk
          /\ th'[MainThread] = Idle]_vars

C5_Witness ==
    /\ res # <<>> /\ prog[Len(res)].op = "seek" /\ prog[Len(res)].whence = "End"
    /\ prog[Len(res)].p = IMin
    /\ ~Last(res).ok /\ Last(res).val = "Cannot seek beyond start of file"
    /\ fil[1].fptr = DiskCap

\* The driver is told to create the file anew.
CreatesAnew(o) == creation_mode(o) \cap {"FA_CREATE_NEW", "FA_CREATE_ALWAYS"} # {}

\* C9: on a file created by an open for read and write, a write of B at
\* position 0 that takes all of B, a seek to Start(0) and a read of Len(B)
\* bytes return B.
C9_WriteSeekReadRoundTrip ==
    (/\ Len(res) >= 4
     /\ prog[1].op = "open" /\ prog[1].opts.read /\ prog[1].opts.write
     /\ CreatesAnew(prog[1].opts) /\ res[1].ok
     /\ prog[2].op = "write" /\ prog[2].f = res[1].val
     /\ res[2].ok /\ res[2].val = Len(prog[2].buf)
     /\ prog[3] = SeekReq(prog[2].f, "Start", 0) /\ res[3].ok
     /\ prog[4] = ReadReq(prog[2].f, Len(prog[2].buf)) /\ res[4].ok)
    => res[4].val = prog[2].buf

C9_Witness ==
    /\ Len(res) >= 4
    /\ prog[1].op = "open" /\ CreatesAnew(prog[1].opts) /\ res[1].ok
    /\ prog[2].op = "write" /\ prog[2].buf = <<1, 0>> /\ res[2].ok /\ res[2].val = 2
    /\ prog[3] = SeekReq(1, "Start", 0) /\ res[3].ok
    /\ prog[4] = ReadReq(1, 2) /\ res[4].ok /\ res[4].val = <<1, 0>>

\* C10: the step of a duplicate makes no driver call and leaves the volume,
\* the FIL objects and the lock as they were; the new File has the handle and
\* the path of the one duplicated, and every File there was is unchanged.
C10_DuplicateTouchesNoDriver ==
    [][(AtRequest /\ NextReq.op = "duplicate" /\ Len(res') = Len(res) + 1) =>
          /\ Last(res').ok /\ Last(res').calls = <<>>
          /\ disk' = disk /\ fil' = fil /\ lock' = lock
          /\ Last(res').val \in DOMAIN files' \ DOMAIN files
          /\ files'[Last(res').val].h = files[NextReq.f].h
          /\ files'[Last(res').val].path = files[NextReq.f].path
          /\ \A f \in DOMAIN files : files'[f] = files[f]]_vars

\* A file written, then duplicated: the two Files share the handle, which keeps
\* its position.
C10_Witness ==
    /\ Len(res) >= 2 /\ prog[Len(res)].op = "duplicate" /\ Last(res).ok
    /\ DOMAIN files = {1, 2} /\ files[1] = files[2] /\ files[1].path = "b"
    /\ fil[files[2].h].fptr = 1

\* ============================================ Condvar::wait_timeout, SpecCv
NanosPerSec == NanosPerMicro * MicrosPerSec
ETIMEDOUT == 110

\* core::time::Duration: seconds and nanoseconds below one second.
Duration_new(secs, nanos) ==
    [secs |-> secs + nanos \div NanosPerSec, nanos |-> nanos % NanosPerSec]
Duration_from_secs(secs) == [secs |-> secs, nanos |-> 0]
Duration_lt(a, b) == a.secs < b.secs \/ (a.secs = b.secs /\ a.nanos < b.nanos)
\* Duration::checked_sub: None when b is the longer.
Duration_checked_sub(a, b) ==
    IF Duration_lt(a, b) THEN [some |-> FALSE, val |-> Duration_from_secs(0)]
    ELSE [some |-> TRUE,
          val |-> IF a.nanos >= b.nanos
                  THEN [secs |-> a.secs - b.secs, nanos |-> a.nanos - b.nanos]
                  ELSE [secs |-> a.secs - b.secs - 1,
                        nanos |-> a.nanos + NanosPerSec - b.nanos]]

\* libc::gettimeofday: the wall clock, wall microseconds after the epoch.
gettimeofday(wall) ==
    [tv_sec |-> wall \div MicrosPerSec, tv_usec |-> wall % MicrosPerSec]

\* current_time(_clock_id): the clock asked for is not looked at.
current_time(clock_id, wall) ==
    Duration_new(gettimeofday(wall).tv_sec, gettimeofday(wall).tv_usec * NanosPerMicro)
Instant_now(wall) == current_time("CLOCK_MONOTONIC", wall)
checked_sub_instant(self, other) == Duration_checked_sub(self, other)

TIMESPEC_MAX == [tv_sec |-> TimeTMax, tv_nsec |-> NanosPerSec - 1]
saturating_cast_to_time_t(value) == IF value > TimeTMax THEN TimeTMax ELSE value

\* A time_t addition that wraps into the negative range.
wrapping_add(a, b) ==
    [some |-> TRUE, val |-> IF a + b > TimeTMax THEN a + b - 2 * (TimeTMax + 1) ELSE a + b]
\* time_t::checked_add: None when the sum is above time_t::MAX.
checked_add(a, b) == [some |-> a + b <= TimeTMax, val |-> a + b]

max_dur == Duration_from_secs(MaxDurSecs)
\* The duration wait_timeout goes on with: clamped to max_dur.
clamped(dur) == IF Duration_lt(max_dur, dur) THEN max_dur ELSE dur

\* The timespec handed to pthread_cond_timedwait.
timeout_of(sys_now, dur) ==
    LET sum == dur.nanos + sys_now.tv_usec * NanosPerMicro
        extra == sum \div NanosPerSec
        nsec == sum % NanosPerSec
        seconds == saturating_cast_to_time_t(dur.secs)
        first == checked_add(sys_now.tv_sec, extra)
        second == IF first.some THEN checked_add(first.val, seconds) ELSE first
    IN  IF second.some THEN [tv_sec |-> second.val, tv_nsec |-> nsec] ELSE TIMESPEC_MAX

\* A result taken from what pthread_cond_timedwait returned.
woke_in_time_by_return(elapsed, dur, r) == r = 0
\* The result of wait_timeout: stable_now.elapsed() < dur.
woke_in_time(elapsed, dur, r) == Duration_lt(elapsed, dur)

Durations == [secs : 0..(MaxDurSecs + 1), nanos : 0..(NanosPerSec - 1)]
WallMax == (TimeTMax + 1) * MicrosPerSec - 1

\* The wall clock at a microsecond count, as nanoseconds, and a timespec so.
WallNanos(wall) == wall * NanosPerMicro
AfterDeadline(wall, ts) ==
    WallNanos(wall) >= ts.tv_sec * NanosPerSec + ts.tv_nsec

InitCv ==
    /\ threads = {} /\ prog = <<>> /\ res = <<>> /\ calls = <<>>
    /\ disk = [p \in Paths |-> NoFile]
    /\ fil = <<>> /\ strong = <<>> /\ lock = <<>> /\ files = <<>>
    /\ th = [t \in Threads |-> Idle]
    /\ DirOff /\ PureOff
    /\ \E w \in 0..WallMax : cv = [pc |-> "idle", wall |-> w, mono |-> 0]

\* wait_timeout up to the call of pthread_cond_timedwait: the duration
\* clamped, both clocks read, the deadline computed.
WaitTimeout ==
    /\ cv.pc = "idle"
    /\ UNCHANGED <<fsvars, dirvars, purevars>>
    /\ \E dur \in Durations :
         cv' = [pc |-> "waiting", wall |-> cv.wall, mono |-> 0,
                requested |-> dur, dur |-> clamped(dur),
                stable_now |-> Instant_now(cv.wall),
                sys_now |-> gettimeofday(cv.wall),
                timeout |-> timeout_of(gettimeofday(cv.wall), clamped(dur))]

\* A microsecond passes.
Tick ==
    /\ cv.pc = "waiting" /\ cv.mono < MaxTicks /\ cv.wall < WallMax
    /\ UNCHANGED <<fsvars, dirvars, purevars>>
    /\ cv' = [cv EXCEPT !.wall = @ + 1, !.mono = @ + 1]

\* The wall clock is set, forward or backward.
ClockAdjust ==
    /\ cv.pc = "waiting"
    /\ UNCHANGED <<fsvars, dirvars, purevars>>
    /\ \E w \in 0..WallMax : w # cv.wall /\ cv' = [cv EXCEPT !.wall = w]

\* pthread_cond_timedwait returns r: 0 at any time (a signal or a spurious
\* wakeup), ETIMEDOUT once the wall clock has reached the deadline.  Then
\* stable_now.elapsed(), which panics when the Instant read is the earlier one.
WaitReturns ==
    /\ cv.pc = "waiting"
    /\ UNCHANGED <<fsvars, dirvars, purevars>>
    /\ \E r \in {0, ETIMEDOUT} :
         /\ r = ETIMEDOUT => AfterDeadline(cv.wall, cv.timeout)
         /\ LET now == Instant_now(cv.wall)
                elapsed == checked_sub_instant(now, cv.stable_now)
            IN  cv' = IF elapsed.some
                      THEN [cv EXCEPT !.pc = "returned"] @@
                           [r |-> r, now |-> now,
                            result |-> woke_in_time(elapsed.val, cv.dur, r)]
                      ELSE [cv EXCEPT !.pc = "panicked"] @@ [r |-> r, now |-> now]

NextCv == WaitTimeout \/ Tick \/ ClockAdjust \/ WaitReturns

SpecCv == InitCv /\ [][NextCv]_vars

\* The nanoseconds of a Duration, and of a timeval.
Nanos(d) == d.secs * NanosPerSec + d.nanos
TimevalNanos(tv) == tv.tv_sec * NanosPerSec + tv.tv_usec * NanosPerMicro

\* C6: wait_timeout returns true iff the time between the Instant read before
\* the wait and the Instant read after it is below the clamped duration,
\* whatever pthread_cond_timedwait returned; for a duration of 0 it is false.
C6_ResultIsMeasuredElapsed ==
    cv.pc = "returned" =>
        /\ cv.result <=> (Nanos(cv.now) - Nanos(cv.stable_now) < Nanos(cv.dur))
        /\ Nanos(cv.requested) = 0 => ~cv.result

\* The primitive reports a wakeup, not a timeout, the clock was left alone,
\* and wait_timeout returns false: the time measured is not below the
\* duration asked for.
C6_Witness ==
    /\ cv.pc = "returned" /\ cv.r = 0 /\ ~cv.result
    /\ Nanos(cv.requested) > 0
    /\ Nanos(cv.now) - Nanos(cv.stable_now) = cv.mono * NanosPerMicro

\* C7: the result of wait_timeout is what the real time that passed gives,
\* whatever was done to the wall clock during the wait, and the Instant read
\* after the wait is not before the one read before it.
C7_ElapsedIndependentOfWallClock ==
    cv.pc \in {"returned", "panicked"} =>
        /\ Nanos(cv.now) >= Nanos(cv.stable_now)
        /\ cv.pc = "returned" =>
             (cv.result <=> cv.mono * NanosPerMicro < Nanos(cv.dur))

\* The deadline in nanoseconds: now plus the lesser of the duration and the
\* ceiling.
DeadlineNanos(sys_now, dur) ==
    TimevalNanos(sys_now) + Min(Nanos(dur), MaxDurSecs * NanosPerSec)

\* C8: the deadline is the wall clock read plus min(duration, ceiling), its
\* nanoseconds below one second, and TIMESPEC_MAX when the seconds of that sum
\* are above time_t::MAX.
C8_DeadlineCarriesAndSaturates ==
    cv.pc = "waiting" =>
        LET total == DeadlineNanos(cv.sys_now, cv.requested)
        IN  /\ cv.timeout.tv_nsec \in 0..(NanosPerSec - 1)
            /\ cv.timeout =
                 IF total \div NanosPerSec > TimeTMax THEN TIMESPEC_MAX
                 ELSE [tv_sec |-> total \div NanosPerSec, tv_nsec |-> total % NanosPerSec]

\* The seconds of the clock and of the duration are representable together,
\* the second carried from the nanoseconds is one too many: the deadline is
\* TIMESPEC_MAX.
C8_Witness ==
    /\ cv.pc = "waiting" /\ cv.mono = 0
    /\ cv.dur.nanos + cv.sys_now.tv_usec * NanosPerMicro >= NanosPerSec
    /\ cv.sys_now.tv_sec + cv.dur.secs = TimeTMax
    /\ cv.dur.secs > 0
    /\ cv.timeout = TIMESPEC_MAX

\* ==================================================== directories, SpecDir
\* The names of a directory, in the order the driver keeps its entries.
Names == <<"x", "y">>
RECURSIVE NodesOfDepth(_)
NodesOfDepth(d) ==
    IF d = 0 THEN {<<>>}
    ELSE {Append(n, Names[i]) : n \in NodesOfDepth(d - 1), i \in 1..Len(Names)}
\* The paths of the volume below its root, which is <<>>.
Nodes == UNION {NodesOfDepth(d) : d \in 1..MaxDepth}
SubNodes(n) == {Append(n, Names[i]) : i \in 1..Len(Names)} \cap Nodes
Parent(n) == SubSeq(n, 1, Len(n) - 1)
IsPrefix(r, n) == Len(r) <= Len(n) /\ SubSeq(n, 1, Len(r)) = r

\* What is at path n of a tree: "none", "file" or "dir".
KindIn(tr, n) == IF n = <<>> THEN "dir" ELSE IF n \in DOMAIN tr THEN tr[n] ELSE "none"
Kind(n) == KindIn(tree, n)
Children(n) == {c \in SubNodes(n) : Kind(c) # "none"}
Without(n) == [m \in DOMAIN tree \ {n} |-> tree[m]]

\* The codes the driver returns, and a failure that comes from the disk and
\* not from what the volume holds.
Codes == 0..MaxCode
Returns(code) == [code |-> code, fault |-> FALSE]
Fault(code) == [code |-> code, fault |-> TRUE]
AnyFault == {Fault(c) : c \in Codes \ {FR_OK}}
HardFault == {Fault(FR_DISK_ERR)}

\* f_mkdir, f_stat and f_unlink on the tree: the code the volume gives.
f_mkdir(n) ==
    Returns(CASE Kind(n) # "none" -> FR_EXIST
              [] Kind(Parent(n)) # "dir" -> FR_NO_PATH
              [] OTHER -> FR_OK)
\* f_stat of a directory entry: fattrib, with AM_DIR for a directory.
f_stat_entry(n) ==
    [code |-> CASE n = <<>> -> FR_INVALID_NAME
                [] Kind(n) = "none" -> FR_NO_FILE
                [] OTHER -> FR_OK,
     fault |-> FALSE,
     fattrib |-> IF Kind(n) = "dir" THEN {"AM_DIR"} ELSE {}]
f_unlink(n) ==
    Returns(CASE n = <<>> -> FR_INVALID_NAME
              [] Kind(n) = "none" -> FR_NO_FILE
              [] Children(n) # {} \/ n = cwd -> FR_DENIED
              [] OTHER -> FR_OK)

\* A driver call as the log of SpecDir keeps it: with the code it returned.
DCall(fn, arg, o) == <<[fn |-> fn, arg |-> arg, code |-> o.code, fault |-> o.fault]>>

\* FileType::is_dir and FileType::is_file.
is_dir(fattrib) == "AM_DIR" \in fattrib
is_file(fattrib) == ~is_dir(fattrib)

\* DirBuilder::mkdir.
Mkdir(t) ==
    /\ t \in threads /\ th[t] = Idle
    /\ UNCHANGED <<threads, cv, purevars, disk, fil, strong, lock, files, dirs, cwd>>
    /\ \E req \in Req(t, "mkdir") :
         \E o \in {f_mkdir(req.path)} \cup AnyFault :
           /\ tree' = IF o.code = FR_OK THEN (req.path :> "dir") @@ tree ELSE tree
           /\ Finish(t, get_error(o.code), DCall("f_mkdir", req.path, o))

\* stat / get_stat.
Stat(t) ==
    /\ t \in threads /\ th[t] = Idle
    /\ UNCHANGED <<threads, cv, purevars, disk, fil, strong, lock, files, dirvars>>
    /\ \E req \in Req(t, "stat") :
         \E o \in {f_stat_entry(req.path)} \cup AnyFault :
           Finish(t, IF o.code = FR_OK
                     THEN Ok(IF is_dir(o.fattrib) THEN "dir" ELSE "file")
                     ELSE get_error(o.code),
                  DCall("f_stat", req.path, o))

\* The type unlink asks of the entry, the one a careless unlink asks, and the
\* one rmdir asks.
unlink_any_type(fattrib) == TRUE
unlink_type(fattrib) == is_file(fattrib)
rmdir_type(fattrib) == is_dir(fattrib)

\* unlink and rmdir: get_stat, the type looked at, and remove.
type_matches(op, fattrib) ==
    IF op = "unlink" THEN unlink_type(fattrib) ELSE rmdir_type(fattrib)
StatThenRemove(t, path, op, msg) ==
    \E s \in {f_stat_entry(path)} \cup HardFault :
      LET stat == DCall("f_stat", path, s)
      IN  IF s.code # FR_OK
          THEN Finish(t, get_error(s.code), stat) /\ UNCHANGED tree
          ELSE IF ~type_matches(op, s.fattrib)
          THEN Finish(t, Err("Other", msg), stat) /\ UNCHANGED tree
          ELSE \E o \in {f_unlink(path)} \cup HardFault :
                 /\ tree' = IF o.code = FR_OK THEN Without(path) ELSE tree
                 /\ Finish(t, get_error(o.code), stat \o DCall("f_unlink", path, o))

Unlink(t) ==
    /\ t \in threads /\ th[t] = Idle
    /\ UNCHANGED <<threads, cv, purevars, disk, fil, strong, lock, files, dirs, cwd>>
    /\ \E req \in Req(t, "unlink") : StatThenRemove(t, req.path, "unlink", "Not a file")

Rmdir(t) ==
    /\ t \in threads /\ th[t] = Idle
    /\ UNCHANGED <<threads, cv, purevars, disk, fil, strong, lock, files, dirs, cwd>>
    /\ \E req \in Req(t, "rmdir") : StatThenRemove(t, req.path, "rmdir", "Not a directory")

\* ------------------------------------------------- ReadDir, remove_dir_all
\* f_opendir, and f_readdir on the DIR of a ReadDir: the next entry there is
\* after the index, or the empty name once there is none.
f_opendir(n) == Returns(IF Kind(n) = "dir" THEN FR_OK ELSE FR_NO_PATH)
f_readdir(dp) ==
    LET later == {i \in (dp.index + 1)..Len(Names) :
                     Append(dp.path, Names[i]) \in Children(dp.path)}
        i == CHOOSE j \in later : \A k \in later : j <= k
    IN  IF later = {}
        THEN [code |-> FR_OK, fault |-> FALSE, fname |-> "", fattrib |-> {},
              index |-> Len(Names)]
        ELSE [code |-> FR_OK, fault |-> FALSE, fname |-> Names[i],
              fattrib |-> IF Kind(Append(dp.path, Names[i])) = "dir" THEN {"AM_DIR"} ELSE {},
              index |-> i]
\* An f_readdir that fails: a hard error, the DIR as it was.
f_readdir_fault(dp) ==
    [code |-> FR_DISK_ERR, fault |-> TRUE, fname |-> "", fattrib |-> {}, index |-> dp.index]

None == [some |-> FALSE, item |-> Ok("")]
Some(v) == [some |-> TRUE, item |-> v]

\* <ReadDir as Iterator>::next, given what f_readdir returned: get_error(..)
\* .ok()? leaves with None when the call failed.
ReadDir_next(rd, o) ==
    IF ~get_error(o.code).ok THEN None
    ELSE IF o.fname = "" THEN None
    ELSE Some(Ok([fname |-> o.fname, fattrib |-> o.fattrib, path |-> rd.path]))

\* A path of an entry that is its name alone.
DirEntry_path_bare(entry) == <<entry.fname>>
\* DirEntry::path: the path of the ReadDir with the name pushed.
DirEntry_path(entry) == Append(entry.path, entry.fname)

\* What next returned as a result of the program: None, or Some of an entry
\* or of an error.
NextResult(item) ==
    IF ~item.some THEN [ok |-> TRUE, kind |-> "None", val |-> ""]
    ELSE IF item.item.ok THEN [ok |-> TRUE, kind |-> "Some", val |-> item.item.val.fname]
    ELSE item.item

\* readdir: f_opendir, and the ReadDir it returns.
Readdir(t) ==
    /\ t \in threads /\ th[t] = Idle
    /\ UNCHANGED <<threads, cv, purevars, disk, fil, strong, lock, files, tree, cwd>>
    /\ \E req \in Req(t, "readdir") :
         \E o \in {f_opendir(req.path)} \cup AnyFault :
           /\ dirs' = IF o.code = FR_OK THEN <<[path |-> req.path, index |-> 0]>> ELSE dirs
           /\ Finish(t, get_error(o.code), DCall("f_opendir", req.path, o))

\* next on the ReadDir that readdir returned.
NextEntry(t) ==
    /\ t \in threads /\ th[t] = Idle /\ dirs # <<>>
    /\ UNCHANGED <<threads, cv, purevars, disk, fil, strong, lock, files, tree, cwd>>
    /\ \E req \in Req(t, "next") :
         \E o \in {f_readdir(dirs[1]), f_readdir_fault(dirs[1])} :
           /\ dirs' = <<[dirs[1] EXCEPT !.index = o.index]>>
           /\ Finish(t, NextResult(ReadDir_next(dirs[1], o)),
                     DCall("f_readdir", dirs[1].path, o))

\* remove_dir_all up to its loop: readdir(path).
RemoveDirAll(t) ==
    /\ t \in threads /\ th[t] = Idle
    /\ UNCHANGED <<threads, cv, purevars, disk, fil, strong, lock, files, tree, cwd>>
    /\ \E req \in Req(t, "remove_dir_all") :
         \E o \in {f_opendir(req.path)} \cup HardFault :
           LET open == DCall("f_opendir", req.path, o)
           IN  IF o.code # FR_OK
               THEN Finish(t, get_error(o.code), open) /\ dirs' = <<>>
               ELSE /\ dirs' = <<[path |-> req.path, index |-> 0]>>
                    /\ Continue(t, [pc |-> "remove_dir_all"], open)

\* One turn of the loop of the innermost remove_dir_all: next, then the entry
\* removed (a file) or entered (a directory), or after the last entry the
\* directory itself removed and the call returned from.  An error returns
\* from every call there is.
RemoveDirAllStep(t) ==
    /\ t \in threads /\ th[t] # Idle /\ th[t].pc = "remove_dir_all"
    /\ UNCHANGED <<threads, cv, purevars, disk, fil, strong, lock, files, cwd>>
    /\ LET top == dirs[Len(dirs)]
           outer == SubSeq(dirs, 1, Len(dirs) - 1)
       IN  \E o \in {f_readdir(top), f_readdir_fault(top)} :
             LET item == ReadDir_next(top, o)
                 read == DCall("f_readdir", top.path, o)
                 seen == Append(outer, [top EXCEPT !.index = o.index])
                 entry == item.item.val
                 target == IF item.some THEN DirEntry_path(entry) ELSE top.path
             IN  IF item.some /\ ~item.item.ok
                 THEN Finish(t, item.item, read) /\ dirs' = <<>> /\ UNCHANGED tree
                 ELSE IF item.some /\ ~is_file(entry.fattrib)
                 THEN \E d \in {f_opendir(target)} \cup HardFault :
                        LET made == read \o DCall("f_opendir", target, d)
                        IN  /\ UNCHANGED tree
                            /\ IF d.code # FR_OK
                               THEN Finish(t, get_error(d.code), made) /\ dirs' = <<>>
                               ELSE /\ dirs' = Append(seen, [path |-> target, index |-> 0])
                                    /\ Continue(t, th[t], made)
                 ELSE \E u \in {f_unlink(target)} \cup HardFault :
                        LET made == read \o DCall("f_unlink", target, u)
                        IN  /\ tree' = IF u.code = FR_OK
                                       THEN [m \in DOMAIN tree \ {target} |-> tree[m]]
                                       ELSE tree
                            /\ IF u.code # FR_OK
                               THEN Finish(t, get_error(u.code), made) /\ dirs' = <<>>
                               ELSE IF item.some
                               THEN dirs' = seen /\ Continue(t, th[t], made)
                               ELSE IF outer = <<>>
                               THEN Finish(t, Ok(0), made) /\ dirs' = <<>>
                               ELSE dirs' = outer /\ Continue(t, th[t], made)

\* ------------------------------------------------------------ getcwd, chdir
\* sys::decode_error_kind, the kind of an io::Error made from_raw_os_error.
decode_error_kind(errno) ==
    CASE errno = 0 -> "WriteZero"
      [] errno \in {4, 5} -> "NotFound"
      [] errno \in {6, 9, 11, 19} -> "InvalidInput"
      [] errno \in {7, 8, 10} -> "PermissionDenied"
      [] errno = 14 -> "Interrupted"
      [] errno = 15 -> "TimedOut"
      [] OTHER -> "Other"
from_raw_os_error(code) == Err(decode_error_kind(code), "os error")

\* The length of the string of a path: "/" for the root, a separator and a
\* name for each directory below.
PathLen(n) == IF n = <<>> THEN 1 ELSE 2 * Len(n)
\* f_getcwd into a buffer of len bytes: the path and its NUL have to fit.
f_getcwd(len) == Returns(IF PathLen(cwd) + 1 <= len THEN FR_OK ELSE FR_NOT_ENOUGH_CORE)
f_chdir(n) == Returns(IF Kind(n) = "dir" THEN FR_OK ELSE FR_NO_PATH)
\* Vec::reserve(1) on a full buffer: the capacity doubles.
grow(cap) == Max(cap * 2, cap + 1)

\* os::getcwd up to its loop: a buffer of the first capacity.
Getcwd(t) ==
    /\ t \in threads /\ th[t] = Idle
    /\ UNCHANGED <<threads, cv, purevars, disk, fil, strong, lock, files, dirvars>>
    /\ \E req \in Req(t, "getcwd") : Continue(t, [pc |-> "getcwd", cap |-> CwdCap], <<>>)

\* One turn of the loop of getcwd: f_getcwd; the path on FR_OK, the loop once
\* more with a larger buffer on FR_NOT_ENOUGH_CORE, an error on any other code.
GetcwdTry(t) ==
    /\ t \in threads /\ th[t] # Idle /\ th[t].pc = "getcwd"
    /\ th[t].cap <= MaxCwdCap
    /\ UNCHANGED <<threads, cv, purevars, disk, fil, strong, lock, files, dirvars>>
    /\ \E o \in {f_getcwd(th[t].cap)} \cup HardFault \cup {Fault(FR_NOT_ENOUGH_CORE)} :
         LET made == DCall("f_getcwd", th[t].cap, o)
         IN  IF o.code = FR_OK THEN Finish(t, Ok(cwd), made)
             ELSE IF o.code # FR_NOT_ENOUGH_CORE THEN Finish(t, from_raw_os_error(o.code), made)
             ELSE Continue(t, [th[t] EXCEPT !.cap = grow(@)], made)

\* os::chdir.
Chdir(t) ==
    /\ t \in threads /\ th[t] = Idle
    /\ UNCHANGED <<threads, cv, purevars, disk, fil, strong, lock, files, tree, dirs>>
    /\ \E req \in Req(t, "chdir") :
         \E o \in {f_chdir(req.path)} \cup HardFault :
           /\ cwd' = IF o.code = FR_OK THEN req.path ELSE cwd
           /\ Finish(t, IF o.code = FR_OK THEN Ok(0) ELSE from_raw_os_error(o.code),
                     DCall("f_chdir", req.path, o))

\* ----------------------------------------------------------------- SpecDir
\* The volumes: every tree below x, and beside it y, a file or nothing.
RECURSIVE TreesAt(_), Forest(_, _)
TreesAt(n) ==
    {<<>>, n :> "file"}
    \cup {(n :> "dir") @@ f : f \in IF Len(n) = MaxDepth THEN {<<>>} ELSE Forest(n, 1)}
Forest(n, i) ==
    IF i > Len(Names) THEN {<<>>}
    ELSE {a @@ b : a \in TreesAt(Append(n, Names[i])), b \in Forest(n, i + 1)}
InitTrees == {a @@ b : a \in TreesAt(<<"x">>), b \in {<<>>, <<"y">> :> "file"}}

PathReq(op, path) == [op |-> op, path |-> path]
OpReq(op) == [op |-> op]
\* The paths the programs name: the root and the two levels below it.
PathArgs == {n \in Nodes \cup {<<>>} : Len(n) <= 2}

\* One operation on a path; a directory opened and read three times; the
\* current directory changed and asked for.
DirPrograms ==
    {<<PathReq(op, n)>> : op \in {"mkdir", "stat", "unlink", "rmdir", "remove_dir_all"},
                          n \in PathArgs}
    \cup {<<PathReq("readdir", n), OpReq("next"), OpReq("next"), OpReq("next")>> :
            n \in PathArgs}
    \cup {<<PathReq("chdir", n), OpReq("getcwd")>> : n \in PathArgs}

InitDir ==
    /\ threads = {MainThread} /\ prog \in DirPrograms
    /\ res = <<>> /\ calls = <<>>
    /\ disk = [p \in Paths |-> NoFile]
    /\ fil = <<>> /\ strong = <<>> /\ lock = <<>> /\ files = <<>>
    /\ th = [t \in Threads |-> Idle]
    /\ cv = [pc |-> "off"] /\ PureOff
    /\ tree \in InitTrees /\ dirs = <<>> /\ cwd = <<>>

NextDir ==
    \E t \in Threads :
        \/ Mkdir(t) \/ Stat(t) \/ Unlink(t) \/ Rmdir(t)
        \/ Readdir(t) \/ NextEntry(t)
        \/ RemoveDirAll(t) \/ RemoveDirAllStep(t)
        \/ Getcwd(t) \/ GetcwdTry(t) \/ Chdir(t)

SpecDir == InitDir /\ [][NextDir]_vars
\* The program goes on as long as it can.
SpecDirFair == SpecDir /\ WF_vars(NextDir)

\* --------------------------------------------------------- claims, SpecDir
\* The kind of error the table of the specification gives a result code.
TableKind(code) ==
    CASE code \in {4, 5} -> "NotFound"
      [] code \in {6, 9, 19} -> "InvalidInput"
      [] code \in {7, 8, 16, FR_WRITE_PROTECTED} -> "PermissionDenied"
      [] code = 14 -> "Interrupted"
      [] code = 15 -> "TimedOut"
      [] OTHER -> "Other"
\* The operations on a path that return what get_error makes of the code of
\* the driver call that failed.
TableOps == {"mkdir", "stat", "readdir", "unlink", "rmdir"}
FailedCalls(log) == {k \in 1..Len(log) : log[k].code # FR_OK}
FirstFailed(log) == CHOOSE k \in FailedCalls(log) : \A j \in FailedCalls(log) : k <= j

\* C11: an operation whose driver calls did not all return 0 returns an error,
\* of the kind the table gives the code that was returned: NotFound,
\* InvalidInput, PermissionDenied (write-protected media among them),
\* Interrupted, TimedOut, and Other for the rest.
C11_ErrorKindOfTable ==
    \A i \in 1..Len(res) :
        (prog[i].op \in TableOps /\ FailedCalls(res[i].calls) # {}) =>
            /\ ~res[i].ok
            /\ res[i].kind = TableKind(res[i].calls[FirstFailed(res[i].calls)].code)

\* C12: in no operation does a driver call follow a driver call that returned
\* a code other than 0.
C12_NoCallAfterFailure ==
    /\ \A k \in 1..(Len(calls) - 1) : calls[k].code = FR_OK
    /\ \A i \in 1..Len(res) :
         \A k \in 1..(Len(res[i].calls) - 1) : res[i].calls[k].code = FR_OK

\* The calls of the log that are f_unlink, and what a remove_dir_all removed.
Unlinks(log) == {k \in 1..Len(log) : log[k].fn = "f_unlink"}
NoFault(log) == \A k \in 1..Len(log) : ~log[k].fault
RemoveDone(i) == i \in 1..Len(res) /\ prog[i].op = "remove_dir_all"

\* C14: remove_dir_all of a directory, when no driver call fails, returns, and
\* with success: every driver call returned 0, nothing is left below the
\* directory or of it, each f_unlink removed one path inside it, a directory
\* after everything that was in it, and the last call removed the directory.
C14_RemoveTreeCompletes ==
    /\ [](\A i \in 1..Len(res) :
            LET log == res[i].calls
                root == prog[i].path
            IN  (RemoveDone(i) /\ root # <<>> /\ log[1].code = FR_OK /\ NoFault(log)) =>
                  /\ res[i].ok
                  /\ \A k \in 1..Len(log) : log[k].code = FR_OK
                  /\ \A n \in Nodes : IsPrefix(root, n) => Kind(n) = "none"
                  /\ Last(log).fn = "f_unlink" /\ Last(log).arg = root
                  /\ \A j, k \in Unlinks(log) :
                       /\ IsPrefix(root, log[k].arg)
                       /\ (j # k => log[j].arg # log[k].arg)
                       /\ (IsPrefix(log[j].arg, log[k].arg) /\ j # k => k < j))
    /\ (prog[1].op = "remove_dir_all") ~> (Len(res) = 1)

\* A directory with a file and a directory with a file in it is removed: four
\* paths and more, the innermost first.
C14_Witness ==
    /\ RemoveDone(1) /\ res[1].ok /\ prog[1].path = <<"x">>
    /\ Cardinality(Unlinks(res[1].calls)) >= 5
    /\ \E k \in Unlinks(res[1].calls) : Len(res[1].calls[k].arg) = 3

\* C15: when a driver call on something inside the directory returns another
\* code than 0, remove_dir_all returns an error and f_unlink is called neither
\* on the directory nor on a directory above what the call was about.
C15_NestedFailureKeepsRoot ==
    \A i \in 1..Len(res) :
        LET log == res[i].calls
            root == prog[i].path
        IN  RemoveDone(i) =>
              \A k \in FailedCalls(log) :
                  log[k].arg # root =>
                    /\ ~res[i].ok
                    /\ \A j \in Unlinks(log) :
                         ~(IsPrefix(log[j].arg, log[k].arg) /\ log[j].arg # log[k].arg)

\* What unlink and rmdir ask to find at the path.
Wanted(req) == IF req.op = "unlink" THEN "file" ELSE "dir"

\* C16: unlink and rmdir call f_stat first, and f_unlink after it only when
\* f_stat returned 0 and the entry is of the type asked for (not a directory
\* for unlink, a directory for rmdir); else they return an error and the
\* volume is as it was.
C16_StatBeforeRemove ==
    [][(AtRequest /\ NextReq.op \in {"unlink", "rmdir"}) =>
          LET log == Last(res').calls
              fits == Kind(NextReq.path) = Wanted(NextReq)
          IN  /\ Len(res') = Len(res) + 1
              /\ Len(log) \in {1, 2} /\ log[1].fn = "f_stat" /\ log[1].arg = NextReq.path
              /\ Len(log) = 2 => log[2].fn = "f_unlink" /\ log[2].arg = NextReq.path
              /\ Len(log) = 2 <=> log[1].code = FR_OK /\ fits
              /\ Len(log) = 1 => ~Last(res').ok /\ tree' = tree]_vars

\* unlink of a directory: f_stat alone is called, and the error is of the type.
C16_Witness ==
    /\ Len(res) = 1 /\ prog[1].op = "unlink" /\ Kind(prog[1].path) = "dir"
    /\ Children(prog[1].path) = {}
    /\ ~res[1].ok /\ res[1].val = "Not a file"
    /\ Len(res[1].calls) = 1 /\ res[1].calls[1].code = FR_OK

\* C17: each next calls f_readdir once; it returns an error item when the
\* call returned another code than 0, None when the call returned 0 and the
\* empty name, and the entry of the record else.
C17_NextReportsFailure ==
    [][(AtRequest /\ NextReq.op = "next" /\ dirs # <<>>) =>
          LET log == Last(res').calls
              record == f_readdir(dirs[1])
          IN  /\ Len(res') = Len(res) + 1
              /\ Len(log) = 1 /\ log[1].fn = "f_readdir"
              /\ IF log[1].code # FR_OK THEN ~Last(res').ok
                 ELSE IF record.fname = "" THEN Last(res').kind = "None"
                 ELSE Last(res').kind = "Some" /\ Last(res').val = record.fname]_vars

\* ===================================================== poisoning, SpecPoison
\* A thread panics while it holds the write guard of a handle, and unwinds:
\* the guard is dropped and the lock is poisoned from then on.
Panic(t) ==
    /\ t \in threads /\ th[t] # Idle /\ th[t].pc \in DriverPcs
    /\ UNCHANGED <<threads, cv, dirvars, purevars, disk, fil, strong, files>>
    /\ lock' = [guard_drop(HandleOf(th[t].f), t) EXCEPT ![HandleOf(th[t].f)].poisoned = TRUE]
    /\ Finish(t, [ok |-> FALSE, kind |-> "Panic", val |-> "panicked"], <<>>)

\* A file opened, an operation under the write guard, and one more of any kind.
PoisonPrograms ==
    {<<OpenReq("a", Opts(TRUE, TRUE, FALSE, FALSE, TRUE, FALSE)), x, y>> :
        x \in {WriteReq(1, <<1>>), FileReq("fsync", 1)},
        y \in SeqSeeks \cup SeqLast
              \cup {WriteReq(1, <<0>>), FileReq("duplicate", 1), FileReq("drop", 1)}}

InitPoison == InitFs /\ threads = {MainThread} /\ prog \in PoisonPrograms
NextPoison == Next \/ \E t \in Threads : Panic(t)
SpecPoison == InitPoison /\ [][NextPoison]_vars

\* The operations that take the lock of the handle, and whether one before
\* the i-th of the program has poisoned it.
LockOps == {"read", "write", "seek", "truncate", "fsync"}
PoisonedAt(i) == \E j \in 1..(i - 1) : res[j].kind = "Panic"

Segs == {".", "..", "a", "b"}
RECURSIVE SegsUpTo(_)
SegsUpTo(n) ==
    IF n = 0 THEN {<<>>}
    ELSE SegsUpTo(n - 1) \cup {Append(q, g) : q \in {r \in SegsUpTo(n - 1) : Len(r) = n - 1},
                                               g \in Segs}
CanonPaths == [root : BOOLEAN, segs : SegsUpTo(MaxSegs)]

\* Path::components: the root, then a component for each segment; "." is a
\* component only where it begins a path that has no root.
Component(p, k) ==
    CASE p.segs[k] = "." -> IF k = 1 /\ ~p.root THEN <<[kind |-> "CurDir", name |-> "."]>> ELSE <<>>
      [] p.segs[k] = ".." -> <<[kind |-> "ParentDir", name |-> ".."]>>
      [] OTHER -> <<[kind |-> "Normal", name |-> p.segs[k]]>>
RECURSIVE ComponentsFrom(_, _)
ComponentsFrom(p, k) ==
    IF k > Len(p.segs) THEN <<>> ELSE Component(p, k) \o ComponentsFrom(p, k + 1)
components(p) ==
    (IF p.root THEN <<[kind |-> "RootDir", name |-> "/"]>> ELSE <<>>) \o ComponentsFrom(p, 1)

\* PathBuf: whether it begins at the root, and its names.
PathBuf_new == [root |-> FALSE, names |-> <<>>]
\* PathBuf::push: a path that begins at the root takes the place of the buffer.
PathBuf_push(buf, p) ==
    IF p.root THEN p ELSE [root |-> buf.root, names |-> buf.names \o p.names]
\* A pop that says yes whatever there is.
PathBuf_pop_always(buf) ==
    [popped |-> TRUE, buf |-> [buf EXCEPT !.names = SubSeq(@, 1, Len(@) - 1)]]
\* PathBuf::pop: the last name goes, if there is one.
PathBuf_pop(buf) ==
    [popped |-> buf.names # <<>>,
     buf |-> [buf EXCEPT !.names = SubSeq(@, 1, Len(@) - 1)]]

\* The directories current_dir can return, and its outcomes: the directory,
\* or the error of getcwd.
CanonCwds == {[root |-> TRUE, names |-> <<>>], [root |-> TRUE, names |-> <<"c">>]}
current_dir(dir) == {Ok(dir), from_raw_os_error(FR_DISK_ERR)}

FsOff ==
    /\ threads = {} /\ prog = <<>> /\ res = <<>> /\ calls = <<>>
    /\ disk = [p \in Paths |-> NoFile]
    /\ fil = <<>> /\ strong = <<>> /\ lock = <<>> /\ files = <<>>
    /\ th = [t \in Threads |-> Idle]
    /\ cv = [pc |-> "off"]

InitCanon ==
    /\ FsOff /\ DirOff /\ stamp = <<>> /\ calc = <<>>
    /\ \E p \in CanonPaths, d \in CanonCwds :
         cn = [path |-> p, cwd |-> d, done |-> 0, buffer |-> PathBuf_new,
               status |-> "run", asked |-> 0]

\* canonicalize, one turn of its loop: the next component of the path.
CanonStep ==
    /\ cn.status = "run" /\ cn.done < Len(components(cn.path))
    /\ UNCHANGED <<fsvars, cv, dirvars, stamp, calc>>
    /\ LET component == components(cn.path)[cn.done + 1]
           next == [cn EXCEPT !.done = @ + 1]
       IN  CASE component.kind = "RootDir" ->
                  cn' = [next EXCEPT !.buffer = PathBuf_push(@, [root |-> TRUE, names |-> <<>>])]
             [] component.kind = "CurDir" ->
                  \E current \in current_dir(cn.cwd) :
                    cn' = IF current.ok
                          THEN [next EXCEPT !.asked = @ + 1,
                                            !.buffer = PathBuf_push(@, current.val)]
                          ELSE [next EXCEPT !.asked = @ + 1, !.status = "err"]
             [] component.kind = "ParentDir" ->
                  cn' = IF PathBuf_pop(cn.buffer).popped
                        THEN [next EXCEPT !.buffer = PathBuf_pop(cn.buffer).buf]
                        ELSE [next EXCEPT !.status = "err"]
             [] OTHER ->
                  cn' = [next EXCEPT !.buffer =
                            PathBuf_push(@, [root |-> FALSE, names |-> <<component.name>>])]

\* canonicalize returns Ok(buffer) after the last component.
CanonReturn ==
    /\ cn.status = "run" /\ cn.done = Len(components(cn.path))
    /\ UNCHANGED <<fsvars, cv, dirvars, stamp, calc>>
    /\ cn' = [cn EXCEPT !.status = "ok"]

NextCanon == CanonStep \/ CanonReturn
SpecCanon == InitCanon /\ [][NextCanon]_vars

\* The names that are left of those of base and the segments q after them
\* when each ".." takes the name before it.
RECURSIVE Resolved(_, _)
Resolved(base, q) ==
    IF q = <<>> THEN base
    ELSE LET before == Resolved(base, SubSeq(q, 1, Len(q) - 1))
         IN  CASE Last(q) = "." -> before
               [] Last(q) = ".." -> SubSeq(before, 1, Len(before) - 1)
               [] OTHER -> Append(before, Last(q))
LeadingCurDir(p) == ~p.root /\ p.segs # <<>> /\ p.segs[1] = "."

\* C18: canonicalize takes the components from left to right; a ".." met
\* when the buffer has no name left (it is empty or the root alone) makes it
\* fail; on success the result has no "." and no ".." in it; and current_dir
\* is called only for a path with a current-directory component.
C18_ParentOfNothingFails ==
    /\ [][(cn.status = "run" /\ cn.done < Len(components(cn.path))
           /\ components(cn.path)[cn.done + 1].kind = "ParentDir"
           /\ cn.buffer.names = <<>>) => cn'.status = "err"]_vars
    /\ [](cn.status = "ok" =>
            /\ \A k \in 1..Len(cn.buffer.names) : cn.buffer.names[k] \notin {".", ".."}
            /\ cn.buffer.names =
                 Resolved(IF LeadingCurDir(cn.path) THEN cn.cwd.names ELSE <<>>,
                          cn.path.segs))
    /\ [](cn.asked = (IF LeadingCurDir(cn.path) /\ cn.done > 0 THEN 1 ELSE 0))

\* "/a/../..": the second ".." finds the root alone.
C18_Witness ==
    /\ cn.status = "err" /\ cn.path = [root |-> TRUE, segs |-> <<"a", "..", "..">>]
    /\ cn.done = 4 /\ cn.buffer = [root |-> TRUE, names |-> <<>>]

\* ======================================== FileAttr::from_filinfo, SpecTime
\* The largest year field (years since 1980) of the dates taken, besides the
\* year field 37 of 2017.
MaxYearBits == 1

\* FILINFO.fdate: year since 1980 in bits 15..9, month in bits 8..5, day in
\* bits 4..0.  FILINFO.ftime: hour in bits 15..11, minute in bits 10..5,
\* second / 2 in bits 4..0.
pack_date(y, mo, d) == y * 512 + mo * 32 + d
pack_time(h, mi, s) == h * 2048 + mi * 32 + s
YearBits == (0..MaxYearBits) \cup {37}
MonthBits == 0..15
DayBits == {0, 1, 28, 29, 30, 31}
HourBits == {0, 23}
MinuteBits == {0, 59}
SecondBits == {0, 1, 31}
Dates == {pack_date(y, mo, d) : y \in YearBits, mo \in MonthBits, d \in DayBits}
Times == {pack_time(h, mi, s) : h \in HourBits, mi \in MinuteBits, s \in SecondBits}
Filinfos == [fdate : Dates, ftime : Times]
\* The directory entries a second stat meets: dates of the calendar.
OtherFilinfos ==
    [fdate : {pack_date(y, mo, d) : y \in 0..MaxYearBits, mo \in {1, 2, 12}, d \in {1, 28}},
     ftime : {pack_time(0, 0, 0), pack_time(23, 59, 29)}]

\* x & 16 of an unsigned x.
and_16(x) == ((x \div 16) % 2) * 16

\* The locals of get_system_time as they are first assigned.  In
\* (date >> 5) & 15 + 1 the sum binds tighter than the &: it is
\* (date >> 5) & 16.
locals(date, time) ==
    [year   |-> (date \div 512) + 1980,
     month  |-> and_16(date \div 32),
     day    |-> date % 32,
     hour   |-> time \div 2048,
     minute |-> (time \div 32) % 64,
     second |-> (time % 32) \div 2]

\* month.wrapping_sub(2) and the correction that follows.  A u64 is written
\* as the integer of least magnitude congruent to it modulo 2^64, which for
\* the values met is also what `as i32` gives; month += 12 overflows the u64
\* when it takes a negative one to a non-negative one.
adjusted(l) ==
    LET month == l.month - 2 IN
    IF month < 0
    THEN [l EXCEPT !.month = month + 12, !.year = @ - 1]
    ELSE [l EXCEPT !.month = month]
add_overflows(l) == l.month - 2 < 0 /\ l.month - 2 + 12 >= 0

elapsed_seconds(l) ==
    ((((l.year \div 4 - l.year \div 100 + l.year \div 400 + (367 * l.month) \div 12 + l.day)
         + l.year * 365 - 719499) * 24 + l.hour) * 60 + l.minute) * 60 + l.second

\* impl From<libc::timeval> for SystemTime.
SystemTime_from(tv) == Duration_new(tv.tv_sec, tv.tv_usec * NanosPerMicro)

\* What is known of an entry's modified field: nothing yet, that decoding it
\* panicked, or the time.
Undecoded == [kind |-> "none", time |-> Duration_from_secs(0)]
Panicked == [kind |-> "panic", time |-> Duration_from_secs(0)]
Modified(time) == [kind |-> "time", time |-> time]

\* get_system_time(date, time): the SystemTime, or the panic of the overflow
\* check where the build has overflow checks on.
get_system_time(date, time, overflow_checks) ==
    LET l == locals(date, time) IN
    IF overflow_checks /\ add_overflows(l) THEN Panicked
    ELSE Modified(SystemTime_from([tv_sec |-> elapsed_seconds(adjusted(l)), tv_usec |-> 0]))

\* FileAttr::from_filinfo: the modified field.
from_filinfo(info, overflow_checks) ==
    get_system_time(info.fdate, info.ftime, overflow_checks)

InitTime ==
    /\ FsOff /\ DirOff /\ cn = <<>> /\ calc = <<>>
    /\ \E a \in Filinfos, b \in OtherFilinfos, checks \in BOOLEAN :
         stamp = [info |-> <<a, b>>, modified |-> <<Undecoded, Undecoded>>,
                  overflow_checks |-> checks]

\* get_stat / DirEntry::metadata on entry i: the FileAttr of its FILINFO.
Metadata(i) ==
    /\ stamp # <<>>
    /\ stamp.modified[i] = Undecoded
    /\ \A k \in 1..2 : stamp.modified[k] # Panicked
    /\ UNCHANGED <<fsvars, cv, dirvars, cn, calc>>
    /\ stamp' = [stamp EXCEPT
                   !.modified[i] = from_filinfo(stamp.info[i], stamp.overflow_checks)]

NextTime == \E i \in 1..2 : Metadata(i)
SpecTime == InitTime /\ [][NextTime]_vars

\* ---- claims, SpecTime
\* The fields as the packed layout gives them.
Fields(info) ==
    [year   |-> 1980 + info.fdate \div 512,
     month  |-> (info.fdate \div 32) % 16,
     day    |-> info.fdate % 32,
     hour   |-> info.ftime \div 2048,
     minute |-> (info.ftime \div 32) % 64,
     second |-> 2 * (info.ftime % 32)]
IsLeap(y) == y % 4 = 0 /\ (y % 100 # 0 \/ y % 400 = 0)
DaysIn(y, mo) ==
    CASE mo = 2 -> IF IsLeap(y) THEN 29 ELSE 28
      [] mo \in {4, 6, 9, 11} -> 30
      [] OTHER -> 31
ValidFields(f) ==
    /\ f.month \in 1..12 /\ f.day \in 1..DaysIn(f.year, f.month)
    /\ f.hour < 24 /\ f.minute < 60
\* Days from 1970-01-01 to the civil date, the year counted from March.
CivilDays(y, mo, d) ==
    LET m2 == IF mo <= 2 THEN mo + 10 ELSE mo - 2
        y2 == IF mo <= 2 THEN y - 1 ELSE y
    IN  y2 \div 4 - y2 \div 100 + y2 \div 400 + (367 * m2) \div 12 + d + y2 * 365 - 719499
CivilSeconds(f) ==
    ((CivilDays(f.year, f.month, f.day) * 24 + f.hour) * 60 + f.minute) * 60 + f.second
Decoded(i) == stamp.modified[i].kind = "time"

\* C19: the modification time decoded from a packed date and time of valid
\* fields is the civil-calendar time of the year, month, day, hour, minute
\* and second (twice the low five bits) that the packed layout gives:
\* date 0x4A21 with time 0 is 2017-01-01 00:00:00.
C19_DecodesCivilTime ==
    \A i \in 1..2 :
      (Decoded(i) /\ ValidFields(Fields(stamp.info[i]))) =>
        stamp.modified[i].time = Duration_from_secs(CivilSeconds(Fields(stamp.info[i])))

\* (date, time) of a is not before that of b.
NotBefore(a, b) == a.fdate > b.fdate \/ (a.fdate = b.fdate /\ a.ftime >= b.ftime)

\* C20: of two valid packed (date, time) pairs, the later one does not
\* decode to the earlier modification time, and equal pairs decode to equal
\* times.
C20_DecodePreservesOrder ==
    \A i \in 1..2, k \in 1..2 :
      (/\ Decoded(i) /\ Decoded(k)
       /\ ValidFields(Fields(stamp.info[i])) /\ ValidFields(Fields(stamp.info[k]))
       /\ NotBefore(stamp.info[i], stamp.info[k])) =>
        ~Duration_lt(stamp.modified[i].time, stamp.modified[k].time)

\* ------------------------------------------------------ claims, SpecPerm
\* Thread t holds a guard of the lock of handle h.
HoldsGuard(t, h) == lock[h].writer = t \/ t \in lock[h].readers
HoldsAGuard(t) == \E h \in DOMAIN lock : HoldsGuard(t, h)

\* C21: a thread is inside a driver call of an operation on a logical file
\* (f_read, f_write, f_lseek, f_truncate, f_sync on the handle) only while it
\* holds the lock of the handle, and the steps that call f_chmod for
\* set_permissions and f_stat for the size of an End-relative seek are taken
\* by a thread that holds the lock.
C21_DriverCallsUnderLock ==
    /\ [](\A t \in Threads :
            (th[t] # Idle /\ th[t].pc \in DriverPcs) => HoldsGuard(t, HandleOf(th[t].f)))
    /\ [][\A t \in Threads : (SetPermissions(t) \/ SeekEnd(t)) => HoldsAGuard(t)]_vars

\* ---------------------------------------------------- claims, Spec (seek)
\* Thread t is in a seek on handle h that has its target and has yet to return
\* from f_lseek.
Seeking(t) == th[t] # Idle /\ th[t].pc \in {"seek_pos", "f_lseek"}
\* What the target of the seek of t was computed from, as it is now.
BaseNow(t) ==
    IF th[t].whence = "End" THEN Len(FileOf(HandleOf(th[t].f)).data)
    ELSE fil[HandleOf(th[t].f)].fptr

\* C22: between the query of a seek (the size, the position) and its
\* repositioning the thread holds no guard of the handle, so that other
\* threads' operations on the handle run there; the target stays the one
\* computed from what the query gave, whatever they do; and the target of a
\* Start seek is computed from nothing that is read.
C22_SeekQueryThenAct ==
    /\ [](\A t \in Threads :
            (th[t] # Idle /\ th[t].pc = "seek_pos") => ~HoldsGuard(t, HandleOf(th[t].f)))
    /\ [](\A t \in Threads :
            Seeking(t) =>
              IF th[t].whence = "Start" THEN th[t].base = 0
              ELSE \E p \in SInts : seek_target(th[t].base, p) = Ok(th[t].position))
    /\ [][\A t \in Threads :
            (Seeking(t) /\ th'[t] # Idle /\ th'[t].pc \in {"seek_pos", "f_lseek"}) =>
              (th'[t].position = th[t].position /\ th'[t].base = th[t].base)]_vars

\* A seek from End is inside f_lseek with a target computed from a size the
\* file no longer has.
C22_Witness ==
    \E t \in Threads :
        /\ th[t] # Idle /\ th[t].pc = "f_lseek" /\ th[t].whence = "End"
        /\ th[t].base # BaseNow(t)

\* C23: the position a successful seek returns is the one its own f_lseek
\* left in the FIL.
C23_SeekReturnsOwnPosition ==
    [][\A t \in Threads :
          (th[t] # Idle /\ th[t].pc = "seek_ret" /\ th'[t] = Idle
           /\ ~is_poisoned(HandleOf(th[t].f))) =>
            fil[HandleOf(th[t].f)].fptr = th[t].established]_vars

\* ------------------------------------------------------- SpecFair (Spec)
\* The steps by which an operation that has begun goes on: the driver call
\* returns, the guard is had once the lock allows it.
Proceed(t) ==
    \/ ReadReturn(t) \/ WriteReturn(t) \/ FsyncReturn(t) \/ TruncateReturn(t)
    \/ SeekCall(t) \/ SeekLseekReturn(t) \/ SeekReturn(t)
\* Every driver call returns and a thread that can go on does.
SpecFair == Spec /\ \A t \in Threads : WF_vars(Proceed(t))

\* A thread begins an operation that does not return in the same step.
Begins == \E t \in Threads : th[t] = Idle /\ th'[t] # Idle

\* C24: a thread that is in no operation holds no guard; a thread that is
\* about to ask for the lock of a handle holds no guard of it; and once no
\* further operation begins, every thread comes to be in no operation.
C24_GuardsReleasedAllComplete ==
    /\ [](\A t \in Threads : th[t] = Idle => ~HoldsAGuard(t))
    /\ [](\A t \in Threads :
            (th[t] # Idle /\ th[t].pc \in {"seek_pos", "seek_ret"}) =>
              ~HoldsGuard(t, HandleOf(th[t].f)))
    /\ (<>[][~Begins]_vars) => <>[](\A t \in Threads : th[t] = Idle)

\* One thread is inside f_truncate with the write guard while the other, its
\* f_lseek done, waits for the read guard.
C24_Witness ==
    \E t, u \in Threads :
        /\ th[t] # Idle /\ th[t].pc = "f_truncate"
        /\ th[u] # Idle /\ th[u].pc = "seek_ret"
        /\ HandleOf(th[t].f) = HandleOf(th[u].f)
        /\ lock[HandleOf(th[t].f)].writer = t

\* ------------------------------------------------------ claims, SpecSeq
\* C25: for a legal open without create_new, the mode handed to f_open asks
\* for the contents of an existing file to be discarded (FA_CREATE_ALWAYS)
\* exactly when truncate is set, and an open of an existing file that
\* succeeds leaves its contents empty when truncate is set and as they were
\* otherwise.
C25_DiscardsIffTruncate ==
    /\ [](\A i \in Opens :
            (~IllegalRequest(prog[i].opts) /\ ~prog[i].opts.create_new
             /\ Len(res[i].calls) = 1) =>
              (("FA_CREATE_ALWAYS" \in res[i].calls[1].arg) <=> prog[i].opts.truncate))
    /\ [][(/\ AtRequest /\ NextReq.op = "open"
           /\ ~IllegalRequest(NextReq.opts) /\ ~NextReq.opts.create_new
           /\ disk[NextReq.path].exists
           /\ Len(res') = Len(res) + 1 /\ Last(res').ok) =>
            disk'[NextReq.path].data =
              IF NextReq.opts.truncate THEN <<>> ELSE disk[NextReq.path].data]_vars

\* C26: a truncate(size) that succeeds leaves the file with size bytes.
C26_TruncateSetsLength ==
    \A i \in 1..Len(res) :
        (prog[i].op = "truncate" /\ res[i].ok /\ i = Len(res)
         /\ prog[i].f \in DOMAIN files) =>
          Len(FileOf(HandleOf(prog[i].f)).data) = prog[i].size

\* ============================================================== SpecCalc
\* The target of File::seek for every base and offset, and the error each
\* operation makes of each result code of the driver.

\* The operations that report a driver failure through get_error (fs.rs) and
\* those that report it through Error::from_raw_os_error (os.rs).
FsOps == {"open", "read", "write", "truncate", "mkdir", "unlink", "stat"}
OsOps == {"chdir", "getcwd"}
\* getcwd does not report FR_NOT_ENOUGH_CORE: it calls again.
Reports(op, code) == code # FR_OK /\ ~(op = "getcwd" /\ code = FR_NOT_ENOUGH_CORE)
error_of(op, code) == IF op \in OsOps THEN from_raw_os_error(code) ELSE get_error(code)

InitCalc ==
    /\ FsOff /\ DirOff /\ cn = <<>> /\ stamp = <<>>
    /\ \/ \E whence \in {"End", "Current"}, base \in UInts, p \in SInts :
            calc = [fn |-> "seek", whence |-> whence, base |-> base, p |-> p,
                    done |-> FALSE, position |-> Ok(0)]
       \/ \E code \in Codes, a \in FsOps, b \in OsOps :
            /\ Reports(a, code) /\ Reports(b, code)
            /\ calc = [fn |-> "error", code |-> code, ops |-> <<a, b>>,
                       done |-> 0, errors |-> <<>>]

\* File::seek from End or Current with the size or position base: position.
SeekPosition ==
    /\ calc # <<>> /\ calc.fn = "seek" /\ ~calc.done
    /\ UNCHANGED <<fsvars, cv, dirvars, cn, stamp>>
    /\ calc' = [calc EXCEPT !.done = TRUE, !.position = seek_target(calc.base, calc.p)]

\* An operation whose driver call returned the code returns its error.
ReportError ==
    /\ calc # <<>> /\ calc.fn = "error" /\ calc.done < Len(calc.ops)
    /\ UNCHANGED <<fsvars, cv, dirvars, cn, stamp>>
    /\ calc' = [calc EXCEPT !.done = @ + 1,
                            !.errors = Append(@, error_of(calc.ops[calc.done + 1], calc.code))]

NextCalc == SeekPosition \/ ReportError
SpecCalc == InitCalc /\ [][NextCalc]_vars

\* ------------------------------------------------------ claims, SpecCalc
\* C27: the target of a seek from End(p) or Current(p) with base b is b + p
\* as integers when that is a position (0 to the greatest u64), and the seek
\* fails otherwise: the sum is never taken modulo the width.
C27_SeekTargetExact ==
    (calc.fn = "seek" /\ calc.done) =>
        IF calc.base + calc.p \in UInts
        THEN calc.position = Ok(calc.base + calc.p)
        ELSE ~calc.position.ok

\* C28: an operation of fs.rs and one of os.rs whose driver calls return the
\* same code, from 1 to 19, return errors of the same kind.
C28_SameKindEitherWay ==
    (calc.fn = "error" /\ calc.done = 2 /\ calc.code \in 1..19) =>
        calc.errors[1].kind = calc.errors[2].kind

====
